---- MODULE Spec2Model ----
(***************************************************************************)
(* Model of the libmobi decoder core helpers (MobiFile/lib/util.c).       *)
(*                                                                         *)
(* Spec       : a loaded document (one MOBIData, or the two halves of a   *)
(*              KF7/KF8 hybrid sharing the record list) under the         *)
(*              mutators mobi_delete_record_by_seqnumber, mobi_parse_kf7, *)
(*              mobi_parse_kf8 and mobi_swap_mobidata.                    *)
(* SpecHeader : the MOBI header queries mobi_exists_fdst,                  *)
(*              mobi_get_fdst_record_number and the five index exists      *)
(*              predicates on documents whose header fields are drawn      *)
(*              from small sets.                                           *)
(* SpecLocale : mobi_get_locale_string and mobi_get_locale_number over the *)
(*              locale table.                                              *)
(* SpecCp1252 : mobi_cp1252_to_utf8 on strings and buffer sizes drawn      *)
(*              from small sets.                                           *)
(* SpecText   : mobi_get_rawml, mobi_dump_rawml and mobi_get_fullname on   *)
(*              documents with every compression and encryption code.      *)
(* SpecMedia  : mobi_decode_audio_resource and mobi_decode_video_resource  *)
(*              on AUDI / VIDE records.                                    *)
(* SpecResource : the audio, video and font decoders and                  *)
(*              mobi_determine_resource_type on resource records.          *)
(* SpecExth   : mobi_decode_exthvalue, mobi_decode_exthstring and          *)
(*              mobi_get_exthtagmeta_by_tag on payloads and tag ids.       *)
(* SpecBoundary : mobi_get_kf8boundary_seqnumber on loaded documents.      *)
(* SpecKf8    : mobi_parse_kf7, mobi_parse_kf8, mobi_get_kf8offset and     *)
(*              mobi_dump_rawml on hybrid and plain files.                 *)
(* SpecRawml  : mobi_get_rawml and mobi_dump_rawml on text records with    *)
(*              trailers, with known and unknown compression codes.        *)
(***************************************************************************)
EXTENDS Integers, Sequences, FiniteSets, TLC

VARIABLES
    m,      \* the MOBIData structures: handle -> struct (1 is m, 2 is m->next of a hybrid)
    rec,    \* the MOBIPdbRecord nodes on the heap: id -> struct
    exth,   \* the EXTH lists of the two Record 0 headers: header id -> sequence of entries
    ph,     \* the Palm database header m->ph points to: [type, creator]
    hdr,    \* the two Record 0 headers: header id -> [rh: Record 0 prefix, mh: MOBI header]
    ret,    \* status returned by the last call
    ub,     \* TRUE once a call has read or written released memory or dereferenced NULL
    arg,    \* the input of the last query: a sequence of arguments
    res     \* the last query made and what it returned: [op, val]

vars == <<m, rec, exth, ph, hdr, ret, ub, arg, res>>

\* the variables the document operations leave alone
queryVars == <<ph, hdr, arg, res>>

(***************************************************************************)
(* Bounds of the model                                                     *)
(***************************************************************************)
\* number of PDB records of the loaded file
MaxRecs == 3

(***************************************************************************)
(* Program constants                                                       *)
(***************************************************************************)
\* the null pointer; records, MOBIData structures and headers are numbered from 1
NULL == 0
\* 32-bit unsigned words are kept as <<high half, low half>> of 16 bits each (the
\* model checker's integers are 32-bit signed)
HALF == 2^16
W(n) == <<n \div HALF, n % HALF>>
U32Dec(x) ==
    IF x[2] > 0 THEN <<x[1], x[2] - 1>>
    ELSE IF x[1] > 0 THEN <<x[1] - 1, HALF - 1>>
    ELSE <<HALF - 1, HALF - 1>>
U32Inc(x) ==
    IF x[2] < HALF - 1 THEN <<x[1], x[2] + 1>>
    ELSE IF x[1] < HALF - 1 THEN <<x[1] + 1, 0>>
    ELSE <<0, 0>>
U32Less(x, y) == x[1] < y[1] \/ (x[1] = y[1] /\ x[2] < y[2])
\* sentinel "no such record" (0xFFFFFFFF)
MOBI_NOTSET == <<HALF - 1, HALF - 1>>
EXTH_KF8BOUNDARY == 121
EXTH_AUTHOR == 100

MOBI_SUCCESS == "MOBI_SUCCESS"
MOBI_PARAM_ERR == "MOBI_PARAM_ERR"
MOBI_DATA_CORRUPT == "MOBI_DATA_CORRUPT"
MOBI_FILE_NOT_FOUND == "MOBI_FILE_NOT_FOUND"
MOBI_FILE_ENCRYPTED == "MOBI_FILE_ENCRYPTED"
MOBI_MALLOC_FAILED == "MOBI_MALLOC_FAILED"
MOBI_INIT_FAILED == "MOBI_INIT_FAILED"
MOBI_BUFFER_END == "MOBI_BUFFER_END"

Min(a, b) == IF a < b THEN a ELSE b

\* "BOUNDARY"
BOUNDARY_MAGIC == <<66, 79, 85, 78, 68, 65, 82, 89>>

(***************************************************************************)
(* Record list (singly linked, MOBIData.rec is the head)                   *)
(***************************************************************************)
Handles == DOMAIN m
RecIds == DOMAIN rec

\* mobi_get_record_by_seqnumber: the node reached after num links, NULL past the
\* end; num is a word
RECURSIVE RecordWalk(_, _, _)
RecordWalk(curr, i, num) ==
    IF curr = NULL THEN NULL
    ELSE IF W(i) = num THEN curr
    ELSE RecordWalk(rec[curr].next, i + 1, num)

\* on the structure d (m != NULL)
GetRecordBySeqnumber(d, num) ==
    IF d.rec = NULL THEN NULL
    ELSE RecordWalk(d.rec, 0, num)

\* on the handle h (NULL for m == NULL)
mobi_get_record_by_seqnumber(h, num) ==
    IF h = NULL THEN NULL ELSE GetRecordBySeqnumber(m[h], num)

\* the nodes a traversal from the head of h visits, in order (released nodes keep
\* their stale link)
RECURSIVE ChainFrom(_)
ChainFrom(curr) ==
    IF curr = NULL THEN <<>> ELSE <<curr>> \o ChainFrom(rec[curr].next)

RecordList(d) == ChainFrom(d.rec)

\* the traversal of the first n+1 nodes from the head of d touches a released node
TouchesReleased(d, n) ==
    \E k \in 1..Min(n + 1, Len(RecordList(d))) : rec[RecordList(d)[k]].freed

\* free(curr->data); curr->data = NULL; free(curr): the payload is gone, the node
\* is released (its memory keeps the stale link until reused)
ReleaseRecord(r, id) ==
    [r EXCEPT ![id].data = <<>>, ![id].freed = TRUE]

\* Mutant: unlinking drops the successor together with the deleted record
DeleteLoopSkipsTwo(mrec, r, curr, prev, i, num) ==
    LET RECURSIVE Loop(_, _, _)
        Loop(c, p, k) ==
            IF c = NULL THEN [mrec |-> mrec, rec |-> r]
            ELSE IF k = num THEN
                LET nn == IF r[c].next = NULL THEN NULL ELSE r[r[c].next].next IN
                IF p = NULL
                THEN [mrec |-> nn, rec |-> ReleaseRecord(r, c)]
                ELSE [mrec |-> mrec,
                      rec |-> ReleaseRecord([r EXCEPT ![p].next = nn], c)]
            ELSE Loop(r[c].next, c, k + 1)
    IN Loop(curr, prev, i)

\* the while loop of mobi_delete_record_by_seqnumber: result head and heap
RECURSIVE DeleteLoop(_, _, _, _, _, _)
DeleteLoop(mrec, r, curr, prev, i, num) ==
    IF curr = NULL THEN [mrec |-> mrec, rec |-> r]
    ELSE IF i = num THEN
        IF prev = NULL
        THEN [mrec |-> r[curr].next, rec |-> ReleaseRecord(r, curr)]
        ELSE [mrec |-> mrec,
              rec |-> ReleaseRecord([r EXCEPT ![prev].next = r[curr].next], curr)]
    ELSE DeleteLoop(mrec, r, r[curr].next, curr, i + 1, num)

(***************************************************************************)
(* EXTH                                                                    *)
(***************************************************************************)
\* mobi_get_exthrecord_by_tag: first entry of the list m->eh with the tag, or NULL
\* (NULL is returned as the empty sequence of entries, a hit as <<entry>>)
GetExthrecordByTag(d, tag) ==
    IF d.eh = NULL THEN <<>>
    ELSE LET list == exth[d.eh]
             hits == {k \in 1..Len(list) : list[k].tag = tag}
         IN IF hits = {} THEN <<>>
            ELSE <<list[CHOOSE k \in hits : \A j \in hits : k <= j]>>

\* val |= (uint32_t) byte << (i * 8), for i in 0..3
OrShifted(val, byte, i) ==
    IF i >= 2 THEN <<val[1] + byte * 2^((i - 2) * 8), val[2]>>
    ELSE <<val[1], val[2] + byte * 2^(i * 8)>>

\* mobi_decode_exthvalue: i = min(size, 4); while (i--) val |= *data++ << (i * 8)
RECURSIVE ExthValueLoop(_, _, _, _)
ExthValueLoop(data, pos, i, val) ==
    IF i = 0 THEN val
    ELSE ExthValueLoop(data, pos + 1, i - 1, OrShifted(val, data[pos], i - 1))

\* mutant: the loop count is not clamped to four bytes
ExthValueNoClamp(data, size) == ExthValueLoop(data, 1, size, W(0))

mobi_decode_exthvalue(data, size) == ExthValueLoop(data, 1, Min(size, 4), W(0))

\* memcmp(data, magic, n) == 0 on a payload of Len(data) bytes.  A payload shorter
\* than n that agrees with the magic on all its bytes is compared with the bytes
\* that follow it in memory: either answer is possible.
MemcmpEqual(data, magic, n) ==
    IF Len(data) >= n THEN {SubSeq(data, 1, n) = SubSeq(magic, 1, n)}
    ELSE IF SubSeq(magic, 1, Len(data)) = data THEN {TRUE, FALSE}
    ELSE {FALSE}

\* mobi_get_kf8boundary_seqnumber: the set of values the call can return
\* (on the structure d; a released record can hold anything)
GetKf8boundarySeqnumber(d) ==
    LET exth_tag == GetExthrecordByTag(d, EXTH_KF8BOUNDARY) IN
    IF exth_tag = <<>> THEN {MOBI_NOTSET}
    ELSE LET rec_number == U32Dec(mobi_decode_exthvalue(exth_tag[1].data,
                                                        exth_tag[1].size))
             record == GetRecordBySeqnumber(d, rec_number)
         IN IF record = NULL THEN {MOBI_NOTSET}
            ELSE IF rec[record].freed THEN {MOBI_NOTSET, rec_number}
            ELSE {IF eq THEN rec_number ELSE MOBI_NOTSET :
                    eq \in MemcmpEqual(rec[record].data, BOUNDARY_MAGIC, 8)}

mobi_get_kf8boundary_seqnumber(h) ==
    IF h = NULL THEN {MOBI_NOTSET} ELSE GetKf8boundarySeqnumber(m[h])

(***************************************************************************)
(* Hybrid queries and switches                                             *)
(***************************************************************************)
mobi_is_hybrid(h) ==
    IF h = NULL THEN FALSE
    ELSE m[h].kf8_boundary_offset # MOBI_NOTSET

\* mutant: the selected half is not looked at
Kf8offsetIgnoresUseKf8(h) ==
    IF m[h].kf8_boundary_offset # MOBI_NOTSET
    THEN U32Inc(m[h].kf8_boundary_offset)
    ELSE W(0)

\* (m is dereferenced without a check)
mobi_get_kf8offset(h) ==
    IF m[h].use_kf8 /\ m[h].kf8_boundary_offset # MOBI_NOTSET
    THEN U32Inc(m[h].kf8_boundary_offset)
    ELSE W(0)

\* Mutant: tmp->eh is never stored, the other half is left without its EXTH list
SwapDropsExth(md, h) ==
    LET n == md[h].next IN
    [md EXCEPT ![h].rh = md[n].rh, ![h].mh = md[n].mh, ![h].eh = md[n].eh,
               ![n].rh = md[h].rh, ![n].mh = md[h].mh, ![n].eh = NULL]

\* mobi_swap_mobidata after a successful malloc: exchange rh, mh, eh of m and m->next
SwapMobidata(md, h) ==
    LET n == md[h].next IN
    [md EXCEPT ![h].rh = md[n].rh, ![h].mh = md[n].mh, ![h].eh = md[n].eh,
               ![n].rh = md[h].rh, ![n].mh = md[h].mh, ![n].eh = md[h].eh]

(***************************************************************************)
(* Loading a file (mobi_init, mobi_load_file)                              *)
(***************************************************************************)
\* the Record 0 / MOBI header / EXTH parsed from record 0, and from the record after
\* the boundary
KF7 == 1
KF8 == 2

\* payloads of the records after record 0: "BOUNDARY", "BOUNDARX", "Hi"
Payloads ==
    {BOUNDARY_MAGIC, <<66, 79, 85, 78, 68, 65, 82, 88>>, <<72, 105>>}

\* record 0 starts with the 16-byte PalmDOC prefix; only its first bytes are kept
Record0Payload == <<0, 2, 0, 0>>

ExthNumeric(tag, v) == [tag |-> tag, size |-> 4, data |-> <<0, 0, 0, v>>]

Kf7ExthLists ==
    {<<>>}
    \cup {<<ExthNumeric(EXTH_KF8BOUNDARY, v)>> : v \in 0..(MaxRecs - 1)}
    \cup {<<[tag |-> EXTH_AUTHOR, size |-> 2, data |-> <<72, 105>>],
            ExthNumeric(EXTH_KF8BOUNDARY, 2)>>}

Kf8ExthLists == {<<>>, <<ExthNumeric(EXTH_KF8BOUNDARY, 2)>>}

\* the record list as read from the file: record k has uid 2k and links to k+1
LoadedRecords(payload) ==
    [k \in 1..MaxRecs |->
        [data |-> IF k = 1 THEN Record0Payload ELSE payload[k],
         size |-> IF k = 1 THEN Len(Record0Payload) ELSE Len(payload[k]),
         uid |-> 2 * (k - 1),
         next |-> IF k = MaxRecs THEN NULL ELSE k + 1,
         freed |-> FALSE]]

\* an absent MOBI header field (a NULL pointer in MOBIMobiHeader); a present field
\* holds a word
ABSENT == <<>>

\* a MOBI header with no optional field
EmptyMobiHeader ==
    [text_encoding |-> ABSENT, version |-> ABSENT,
     full_name_offset |-> ABSENT, full_name_length |-> ABSENT,
     first_text_index |-> ABSENT, last_text_index |-> ABSENT,
     fdst_index |-> ABSENT, fdst_section_count |-> ABSENT,
     extra_flags |-> ABSENT,
     orth_index |-> ABSENT, ncx_index |-> ABSENT, fragment_index |-> ABSENT,
     skeleton_index |-> ABSENT, guide_index |-> ABSENT]

\* the Record 0 prefix of an uncompressed, unencrypted book with one text record
PlainRecord0Header ==
    [compression_type |-> 1, text_length |-> W(2), text_record_count |-> 1,
     text_record_size |-> 4096, encryption_type |-> 0]

\* the headers of a KF7 and of a KF8 Record 0
PlainHeaders ==
    <<[rh |-> PlainRecord0Header, mh |-> [EmptyMobiHeader EXCEPT !.version = W(6)]],
      [rh |-> PlainRecord0Header, mh |-> [EmptyMobiHeader EXCEPT !.version = W(8)]]>>

\* the Palm database header of a Mobipocket file
MobipocketHeader == [type |-> "BOOK", creator |-> "MOBI"]

NoQuery == [op |-> "none", val |-> W(0)]

\* mobi_init
MobiInit ==
    [use_kf8 |-> TRUE, kf8_boundary_offset |-> MOBI_NOTSET,
     ph |-> NULL, rh |-> NULL, mh |-> NULL, eh |-> NULL, rec |-> NULL, next |-> NULL]

\* the header pointers after parsing the Record 0 numbered hd
WithRecord0(d, hd) ==
    [d EXCEPT !.rh = hd, !.mh = hd, !.eh = IF exth[hd] = <<>> THEN NULL ELSE hd]

\* mobi_load_file: the MOBIData structures it can leave for the records and EXTH
\* lists held in rec and exth.  A file whose boundary record is the last record has
\* no second Record 0 and does not load.
LoadFile ==
    LET first == WithRecord0([MobiInit EXCEPT !.ph = 1, !.rec = 1], KF7)
        found == IF first.eh = NULL THEN {MOBI_NOTSET}
                 ELSE GetKf8boundarySeqnumber(first)
        Hybrid(b) ==
            LET pair == (1 :> [first EXCEPT !.kf8_boundary_offset = b, !.next = 2])
                        @@ (2 :> WithRecord0([MobiInit EXCEPT !.ph = first.ph,
                                                              !.rec = first.rec,
                                                              !.next = 1], KF8))
            IN IF first.use_kf8 THEN SwapMobidata(pair, 1) ELSE pair
    IN {IF b = MOBI_NOTSET THEN (1 :> first) ELSE Hybrid(b) :
            b \in {x \in found : x = MOBI_NOTSET \/ U32Less(U32Inc(x), W(MaxRecs))}}

Init ==
    /\ \E payload \in [2..MaxRecs -> Payloads] : rec = LoadedRecords(payload)
    /\ \E k7 \in Kf7ExthLists, k8 \in Kf8ExthLists : exth = <<k7, k8>>
    /\ m \in LoadFile
    /\ ph = MobipocketHeader
    /\ hdr = PlainHeaders
    /\ ret = MOBI_SUCCESS
    /\ ub = FALSE
    /\ arg = <<>>
    /\ res = NoQuery

(***************************************************************************)
(* Operations on a loaded document                                         *)
(***************************************************************************)
\* mobi_delete_record_by_seqnumber(m, num); h = NULL is the call with m == NULL.
\* A traversal that reads a released node either acts on the stale contents or
\* has no effect.
DeleteRecord(h, num) ==
    IF h = NULL \/ (h # NULL /\ m[h].rec = NULL)
    THEN /\ ret' = MOBI_INIT_FAILED
         /\ UNCHANGED <<m, rec, exth, ub, queryVars>>
    ELSE LET del == DeleteLoop(m[h].rec, rec, m[h].rec, NULL, 0, num) IN
         /\ ret' = MOBI_SUCCESS
         /\ UNCHANGED <<exth, queryVars>>
         /\ IF TouchesReleased(m[h], num)
            THEN /\ ub' = TRUE
                 /\ \/ m' = [m EXCEPT ![h].rec = del.mrec] /\ rec' = del.rec
                    \/ UNCHANGED <<m, rec>>
            ELSE /\ m' = [m EXCEPT ![h].rec = del.mrec]
                 /\ rec' = del.rec
                 /\ UNCHANGED ub

\* mobi_parse_kf7
ParseKf7(h) ==
    /\ IF h = NULL
       THEN ret' = MOBI_INIT_FAILED /\ UNCHANGED m
       ELSE ret' = MOBI_SUCCESS /\ m' = [m EXCEPT ![h].use_kf8 = FALSE]
    /\ UNCHANGED <<rec, exth, ub, queryVars>>

\* a mobi_parse_kf8 that flips use_kf8 instead of setting it
ParseKf8Flips(h) ==
    /\ IF h = NULL
       THEN ret' = MOBI_INIT_FAILED /\ UNCHANGED m
       ELSE ret' = MOBI_SUCCESS /\ m' = [m EXCEPT ![h].use_kf8 = ~m[h].use_kf8]
    /\ UNCHANGED <<rec, exth, ub, queryVars>>

\* mobi_parse_kf8
ParseKf8(h) ==
    /\ IF h = NULL
       THEN ret' = MOBI_INIT_FAILED /\ UNCHANGED m
       ELSE ret' = MOBI_SUCCESS /\ m' = [m EXCEPT ![h].use_kf8 = TRUE]
    /\ UNCHANGED <<rec, exth, ub, queryVars>>

\* mobi_swap_mobidata(m); malloc_ok is whether the malloc of tmp succeeds.  On a
\* document that is not a hybrid m->next is NULL and is dereferenced.
SwapHalves(h, malloc_ok) ==
    /\ IF ~malloc_ok
       THEN ret' = MOBI_MALLOC_FAILED /\ UNCHANGED <<m, ub>>
       ELSE IF m[h].next = NULL
       THEN ub' = TRUE /\ UNCHANGED <<m, ret>>
       ELSE ret' = MOBI_SUCCESS /\ m' = SwapMobidata(m, h) /\ UNCHANGED ub
    /\ UNCHANGED <<rec, exth, queryVars>>

\* the calls a client can make; nothing is modelled after a call has had undefined
\* behaviour
DeleteRecordCall ==
    /\ ~ub
    /\ \E h \in Handles \cup {NULL}, num \in 0..MaxRecs : DeleteRecord(h, num)

ParseKf7Call == ~ub /\ \E h \in Handles \cup {NULL} : ParseKf7(h)

ParseKf8Call == ~ub /\ \E h \in Handles \cup {NULL} : ParseKf8(h)

SwapCall == ~ub /\ \E h \in Handles, malloc_ok \in BOOLEAN : SwapHalves(h, malloc_ok)

Next ==
    \/ DeleteRecordCall
    \/ ParseKf7Call
    \/ ParseKf8Call
    \/ SwapCall

Spec == Init /\ [][Next]_vars

(***************************************************************************)
(* Properties of the loaded document                                       *)
(***************************************************************************)
IsHybridDocument == m[1].next # NULL

\* every node reachable from the head of d is live
WellFormed(d) ==
    \A k \in 1..Len(RecordList(d)) : ~rec[RecordList(d)[k]].freed

\* the sequence s without its k-th element
RemoveAt(s, k) == SubSeq(s, 1, k - 1) \o SubSeq(s, k + 1, Len(s))

\* C1: on a hybrid document two successive mobi_swap_mobidata calls give back the
\* MOBIData structures of both halves exactly as they were (rh, mh, eh restored,
\* rec, ph, use_kf8, kf8_boundary_offset and next untouched).
C1_SwapTwiceRestores ==
    \A h \in Handles :
        m[h].next # NULL => SwapMobidata(SwapMobidata(m, h), h) = m

\* a hybrid on which a swap has put the KF7 headers in the first structure
C1_Witness ==
    /\ IsHybridDocument
    /\ m[1].mh = KF7 /\ m[2].mh = KF8
    /\ ret = MOBI_SUCCESS

\* the EXTH list of d has a tag 121 entry and the record it references (value minus
\* one) is in the list of d and starts with "BOUNDARY"
BoundaryReferenced(d) ==
    LET exth_tag == GetExthrecordByTag(d, EXTH_KF8BOUNDARY) IN
    /\ exth_tag # <<>>
    /\ LET record == GetRecordBySeqnumber(
                         d, U32Dec(mobi_decode_exthvalue(exth_tag[1].data,
                                                         exth_tag[1].size)))
       IN /\ record # NULL
          /\ ~rec[record].freed
          /\ Len(rec[record].data) >= 8
          /\ SubSeq(rec[record].data, 1, 8) = BOUNDARY_MAGIC

\* C2: in every reachable state mobi_is_hybrid(m) is true exactly when an EXTH tag
\* 121 entry is present (in the EXTH list of either half) and the record it
\* references starts with "BOUNDARY".
C2_HybridIffBoundary ==
    mobi_is_hybrid(1) <=> \E h \in Handles : BoundaryReferenced(m[h])

\* C8: a call mobi_delete_record_by_seqnumber(m, n) on a well-formed list of length
\* L removes exactly the n-th record when n < L (its payload released, every other
\* record, its payload and the order kept) and changes nothing when n >= L; after
\* it mobi_get_record_by_seqnumber(m, i) is the i-th remaining record for i below
\* the new length and NULL otherwise.
C8_DeleteRemovesExactlyOne ==
    [][\A h \in Handles, num \in 0..MaxRecs :
        (DeleteRecord(h, num) /\ WellFormed(m[h])) =>
            LET old == RecordList(m[h])
                new == RecordList(m[h])'
            IN /\ IF num < Len(old)
                  THEN /\ new = RemoveAt(old, num + 1)
                       /\ rec'[old[num + 1]].freed
                       /\ rec'[old[num + 1]].data = <<>>
                       /\ \A k \in 1..Len(new) :
                            /\ rec'[new[k]].data = rec[new[k]].data
                            /\ rec'[new[k]].size = rec[new[k]].size
                            /\ rec'[new[k]].uid = rec[new[k]].uid
                            /\ ~rec'[new[k]].freed
                  ELSE new = old /\ rec' = rec
               /\ \A i \in 0..MaxRecs :
                    mobi_get_record_by_seqnumber(h, W(i))' =
                        IF i < Len(new) THEN new[i + 1] ELSE NULL
               /\ \A k \in 1..(Len(new) - 1) : rec'[new[k]].uid < rec'[new[k + 1]].uid
      ]_vars

\* a record in the middle of the list has been deleted and its neighbours linked
C8_Witness ==
    /\ ~ub
    /\ ret = MOBI_SUCCESS
    /\ \E id \in RecIds :
        /\ rec[id].freed
        /\ \E p \in RecIds : ~rec[p].freed /\ rec[p].next = id + 1 /\ p < id

\* C9: in a hybrid document both halves reference the same list of live records
\* after any sequence of deletions, and neither references a released record.
C9_HalvesShareLiveRecords ==
    IsHybridDocument =>
        /\ m[1].rec = m[2].rec
        /\ WellFormed(m[1])
        /\ WellFormed(m[2])

(***************************************************************************)
(* MOBI header queries (SpecHeader)                                        *)
(***************************************************************************)
\* the MOBI header m->mh points to (m->mh != NULL)
Mh(h) == hdr[m[h].mh].mh

\* mobi_exists_mobiheader
mobi_exists_mobiheader(h) ==
    IF h = NULL THEN FALSE
    ELSE m[h].mh # NULL

\* mobi_get_fileversion
mobi_get_fileversion(h) ==
    IF h = NULL THEN MOBI_NOTSET
    ELSE IF m[h].mh # NULL /\ Mh(h).version # ABSENT THEN Mh(h).version
    ELSE W(1)

\* mobi_exists_fdst
mobi_exists_fdst(h) ==
    IF ~mobi_exists_mobiheader(h) THEN FALSE
    ELSE IF ~U32Less(mobi_get_fileversion(h), W(8))
    THEN Mh(h).fdst_index # ABSENT /\ Mh(h).fdst_index # MOBI_NOTSET
    ELSE Mh(h).fdst_section_count # ABSENT /\ U32Less(W(1), Mh(h).fdst_section_count)

\* mobi_exists_skel_indx
mobi_exists_skel_indx(h) ==
    IF ~mobi_exists_mobiheader(h) THEN FALSE
    ELSE IF Mh(h).skeleton_index = ABSENT \/ Mh(h).skeleton_index = MOBI_NOTSET THEN FALSE
    ELSE TRUE

\* mobi_exists_frag_indx
mobi_exists_frag_indx(h) ==
    IF ~mobi_exists_mobiheader(h) THEN FALSE
    ELSE IF Mh(h).fragment_index = ABSENT \/ Mh(h).fragment_index = MOBI_NOTSET THEN FALSE
    ELSE TRUE

\* mobi_exists_guide_indx
mobi_exists_guide_indx(h) ==
    IF ~mobi_exists_mobiheader(h) THEN FALSE
    ELSE IF Mh(h).guide_index = ABSENT \/ Mh(h).guide_index = MOBI_NOTSET THEN FALSE
    ELSE TRUE

\* mobi_exists_ncx
mobi_exists_ncx(h) ==
    IF ~mobi_exists_mobiheader(h) THEN FALSE
    ELSE IF Mh(h).ncx_index = ABSENT \/ Mh(h).ncx_index = MOBI_NOTSET THEN FALSE
    ELSE TRUE

\* mobi_exists_orth
mobi_exists_orth(h) ==
    IF ~mobi_exists_mobiheader(h) THEN FALSE
    ELSE IF Mh(h).orth_index = ABSENT \/ Mh(h).orth_index = MOBI_NOTSET THEN FALSE
    ELSE TRUE

\* *m->mh->fdst_index + offset, computed in size_t; the model's documents keep the
\* sum below 2^32 unless fdst_index is 0xFFFFFFFF, which never reaches the sum
RECURSIVE U32Add(_, _)
U32Add(x, n) == IF n = 0 THEN x ELSE U32Add(U32Inc(x), n - 1)

\* mobi_get_fdst_record_number: the outcomes of the call, [ub, val].  m->mh is
\* dereferenced without a check, and so is m->mh->last_text_index: with a NULL
\* pointer the call has no defined result.
mobi_get_fdst_record_number(h) ==
    IF m[h].mh = NULL THEN {[ub |-> TRUE, val |-> v] : v \in {MOBI_NOTSET, W(0)}}
    ELSE LET offset == mobi_get_kf8offset(h)
             count_set == /\ Mh(h).fdst_section_count # ABSENT
                          /\ U32Less(W(1), Mh(h).fdst_section_count)
         IN IF Mh(h).fdst_index # ABSENT /\ Mh(h).fdst_index # MOBI_NOTSET /\ count_set
            THEN {[ub |-> FALSE, val |-> U32Add(Mh(h).fdst_index, offset[2])]}
            ELSE IF count_set
            THEN IF Mh(h).last_text_index = ABSENT
                 THEN {[ub |-> TRUE, val |-> v] : v \in {MOBI_NOTSET, W(0)}}
                 ELSE {[ub |-> FALSE, val |-> Mh(h).last_text_index]}
            ELSE {[ub |-> FALSE, val |-> MOBI_NOTSET]}

\* the MOBI headers of the queried documents
FdstHeaders ==
    {[EmptyMobiHeader EXCEPT !.version = v, !.fdst_index = i,
                             !.fdst_section_count = c, !.last_text_index = l] :
        v \in {ABSENT, W(6), W(8)},
        i \in {ABSENT, MOBI_NOTSET, W(2)},
        c \in {ABSENT, W(1), W(MaxRecs)},
        l \in {ABSENT, W(MaxRecs - 1)}}

\* the index fields of the MOBI header the exists predicates look at
IndexFields ==
    {"skeleton_index", "fragment_index", "guide_index", "ncx_index", "orth_index"}

\* MOBI headers in which at most one of the index fields is present, unset
\* (0xFFFFFFFF) or set
IndexHeaders ==
    {[mh EXCEPT ![f] = x] :
        mh \in FdstHeaders, f \in IndexFields, x \in {ABSENT, MOBI_NOTSET, W(2)}}

\* a document with or without a MOBI header, hybrid or not, read as KF7 or KF8
InitHeader ==
    /\ rec = LoadedRecords([k \in 2..MaxRecs |-> BOUNDARY_MAGIC])
    /\ exth = <<<<>>, <<>>>>
    /\ ph = MobipocketHeader
    /\ \E mh \in IndexHeaders :
        hdr = <<[rh |-> PlainRecord0Header, mh |-> mh],
                [rh |-> PlainRecord0Header, mh |-> mh]>>
    /\ \E has_mh \in BOOLEAN, kf8 \in BOOLEAN, b \in {MOBI_NOTSET, W(1)} :
        m = (1 :> [MobiInit EXCEPT !.ph = 1, !.rec = 1, !.rh = KF7,
                                   !.mh = IF has_mh THEN KF7 ELSE NULL,
                                   !.use_kf8 = kf8, !.kf8_boundary_offset = b])
    /\ ret = MOBI_SUCCESS
    /\ ub = FALSE
    /\ arg = <<>>
    /\ res = NoQuery

ExistsFdstCall ==
    /\ res' = [op |-> "mobi_exists_fdst", val |-> mobi_exists_fdst(1)]
    /\ UNCHANGED <<m, rec, exth, ph, hdr, ret, ub, arg>>

GetFdstRecordNumberCall ==
    /\ ~ub
    /\ \E o \in mobi_get_fdst_record_number(1) :
        /\ res' = [op |-> "mobi_get_fdst_record_number", val |-> o.val]
        /\ ub' = o.ub
    /\ UNCHANGED <<m, rec, exth, ph, hdr, ret, arg>>

ExistsSkelIndxCall ==
    /\ res' = [op |-> "mobi_exists_skel_indx", val |-> mobi_exists_skel_indx(1)]
    /\ UNCHANGED <<m, rec, exth, ph, hdr, ret, ub, arg>>

ExistsFragIndxCall ==
    /\ res' = [op |-> "mobi_exists_frag_indx", val |-> mobi_exists_frag_indx(1)]
    /\ UNCHANGED <<m, rec, exth, ph, hdr, ret, ub, arg>>

ExistsGuideIndxCall ==
    /\ res' = [op |-> "mobi_exists_guide_indx", val |-> mobi_exists_guide_indx(1)]
    /\ UNCHANGED <<m, rec, exth, ph, hdr, ret, ub, arg>>

ExistsNcxCall ==
    /\ res' = [op |-> "mobi_exists_ncx", val |-> mobi_exists_ncx(1)]
    /\ UNCHANGED <<m, rec, exth, ph, hdr, ret, ub, arg>>

ExistsOrthCall ==
    /\ res' = [op |-> "mobi_exists_orth", val |-> mobi_exists_orth(1)]
    /\ UNCHANGED <<m, rec, exth, ph, hdr, ret, ub, arg>>

NextHeader ==
    \/ ExistsFdstCall
    \/ GetFdstRecordNumberCall
    \/ ExistsSkelIndxCall
    \/ ExistsFragIndxCall
    \/ ExistsGuideIndxCall
    \/ ExistsNcxCall
    \/ ExistsOrthCall

SpecHeader == InitHeader /\ [][NextHeader]_vars

\* C3: on a document with a MOBI header, whenever mobi_exists_fdst is true the
\* value returned by mobi_get_fdst_record_number is not MOBI_NOTSET.  Stated for
\* the calls whose behaviour is defined; it fails already for those.
C3_ExistsFdstImpliesNumber ==
    (res.op = "mobi_get_fdst_record_number" /\ ~ub /\ mobi_exists_mobiheader(1)
        /\ mobi_exists_fdst(1))
    => res.val # MOBI_NOTSET

(***************************************************************************)
(* Locale table (SpecLocale)                                               *)
(***************************************************************************)
MOBI_LANG_MAX == 99
MOBI_REGION_MAX == 21

\* mobi_locale: the initialised entries of each language row, as ASCII codes; the
\* remaining slots of a row, and the rows without an initialiser, are NULL
mobi_locale_rows == <<
    <<<<110, 101, 117, 116, 114, 97, 108>>>>,  \* 0: neutral
    \* 1: ar ar-sa ar ar-eg ar ar-dz ar-ma ar-tn ar-om ar-ye ar-sy ar-jo ar-lb ar-kw ar-ae ar-bh ar-
    <<<<97, 114>>, <<97, 114, 45, 115, 97>>, <<97, 114>>, <<97, 114, 45, 101, 103>>, <<97, 114>>,
      <<97, 114, 45, 100, 122>>, <<97, 114, 45, 109, 97>>, <<97, 114, 45, 116, 110>>,
      <<97, 114, 45, 111, 109>>, <<97, 114, 45, 121, 101>>, <<97, 114, 45, 115, 121>>,
      <<97, 114, 45, 106, 111>>, <<97, 114, 45, 108, 98>>, <<97, 114, 45, 107, 119>>,
      <<97, 114, 45, 97, 101>>, <<97, 114, 45, 98, 104>>, <<97, 114, 45, 113, 97>>>>,
    <<<<98, 103>>>>,  \* 2: bg
    <<<<99, 97>>>>,  \* 3: ca
    \* 4: zh zh-tw zh-cn zh-hk zh-sg
    <<<<122, 104>>, <<122, 104, 45, 116, 119>>, <<122, 104, 45, 99, 110>>, <<122, 104, 45, 104, 107>>,
      <<122, 104, 45, 115, 103>>>>,
    <<<<99, 115>>>>,  \* 5: cs
    <<<<100, 97>>>>,  \* 6: da
    \* 7: de de-de de-ch de-at de-lu de-li
    <<<<100, 101>>, <<100, 101, 45, 100, 101>>, <<100, 101, 45, 99, 104>>, <<100, 101, 45, 97, 116>>,
      <<100, 101, 45, 108, 117>>, <<100, 101, 45, 108, 105>>>>,
    <<<<101, 108>>>>,  \* 8: el
    \* 9: en en-us en-gb en-au en-ca en-nz en-ie en-za en-jm en en-bz en-tt en-zw en-ph
    <<<<101, 110>>, <<101, 110, 45, 117, 115>>, <<101, 110, 45, 103, 98>>, <<101, 110, 45, 97, 117>>,
      <<101, 110, 45, 99, 97>>, <<101, 110, 45, 110, 122>>, <<101, 110, 45, 105, 101>>,
      <<101, 110, 45, 122, 97>>, <<101, 110, 45, 106, 109>>, <<101, 110>>, <<101, 110, 45, 98, 122>>,
      <<101, 110, 45, 116, 116>>, <<101, 110, 45, 122, 119>>, <<101, 110, 45, 112, 104>>>>,
    \* 10: es es-es es-mx es es-gt es-cr es-pa es-do es-ve es-co es-pe es-ar es-ec es-cl es-uy es-py 
    <<<<101, 115>>, <<101, 115, 45, 101, 115>>, <<101, 115, 45, 109, 120>>, <<101, 115>>,
      <<101, 115, 45, 103, 116>>, <<101, 115, 45, 99, 114>>, <<101, 115, 45, 112, 97>>,
      <<101, 115, 45, 100, 111>>, <<101, 115, 45, 118, 101>>, <<101, 115, 45, 99, 111>>,
      <<101, 115, 45, 112, 101>>, <<101, 115, 45, 97, 114>>, <<101, 115, 45, 101, 99>>,
      <<101, 115, 45, 99, 108>>, <<101, 115, 45, 117, 121>>, <<101, 115, 45, 112, 121>>,
      <<101, 115, 45, 98, 111>>, <<101, 115, 45, 115, 118>>, <<101, 115, 45, 104, 110>>,
      <<101, 115, 45, 110, 105>>, <<101, 115, 45, 112, 114>>>>,
    <<<<102, 105>>>>,  \* 11: fi
    \* 12: fr fr-fr fr-be fr-ca fr-ch fr-lu fr-mc
    <<<<102, 114>>, <<102, 114, 45, 102, 114>>, <<102, 114, 45, 98, 101>>, <<102, 114, 45, 99, 97>>,
      <<102, 114, 45, 99, 104>>, <<102, 114, 45, 108, 117>>, <<102, 114, 45, 109, 99>>>>,
    <<<<104, 101>>>>,  \* 13: he
    <<<<104, 117>>>>,  \* 14: hu
    <<<<105, 115>>>>,  \* 15: is
    <<<<105, 116>>, <<105, 116, 45, 105, 116>>, <<105, 116, 45, 99, 104>>>>,  \* 16: it it-it it-ch
    <<<<106, 97>>>>,  \* 17: ja
    <<<<107, 111>>>>,  \* 18: ko
    <<<<110, 108>>, <<110, 108, 45, 110, 108>>, <<110, 108, 45, 98, 101>>>>,  \* 19: nl nl-nl nl-be
    <<<<110, 111>>>>,  \* 20: no
    <<<<112, 108>>>>,  \* 21: pl
    <<<<112, 116>>, <<112, 116, 45, 98, 114>>, <<112, 116, 45, 112, 116>>>>,  \* 22: pt pt-br pt-pt
    <<<<114, 109>>>>,  \* 23: rm
    <<<<114, 111>>>>,  \* 24: ro
    <<<<114, 117>>>>,  \* 25: ru
    <<<<104, 114>>>>,  \* 26: hr
    <<<<115, 114>>, <<115, 114>>, <<115, 114>>, <<115, 114>>>>,  \* 27: sr sr sr sr
    <<<<115, 107>>>>,  \* 28: sk
    <<<<115, 113>>>>,  \* 29: sq
    <<<<115, 118>>, <<115, 118, 45, 115, 101>>, <<115, 118, 45, 102, 105>>>>,  \* 30: sv sv-se sv-fi
    <<<<116, 104>>>>,  \* 31: th
    <<<<116, 114>>>>,  \* 32: tr
    <<<<117, 114>>>>,  \* 33: ur
    <<<<105, 100>>>>,  \* 34: id
    <<<<117, 107>>>>,  \* 35: uk
    <<<<98, 101>>>>,  \* 36: be
    <<<<115, 108>>>>,  \* 37: sl
    <<<<101, 116>>>>,  \* 38: et
    <<<<108, 118>>>>,  \* 39: lv
    <<<<108, 116>>>>,  \* 40: lt
    <<<<102, 97>>>>,  \* 41: fa
    <<<<118, 105>>>>,  \* 42: vi
    <<<<104, 121>>>>,  \* 43: hy
    <<<<97, 122>>>>,  \* 44: az
    <<<<101, 117>>>>,  \* 45: eu
    <<<<115, 98>>>>,  \* 46: sb
    <<<<109, 107>>>>,  \* 47: mk
    <<<<115, 120>>>>,  \* 48: sx
    <<<<116, 115>>>>,  \* 49: ts
    <<<<116, 110>>>>,  \* 50: tn
    <<>>,  \* 51
    <<<<120, 104>>>>,  \* 52: xh
    <<<<122, 117>>>>,  \* 53: zu
    <<<<97, 102>>>>,  \* 54: af
    <<<<107, 97>>>>,  \* 55: ka
    <<<<102, 111>>>>,  \* 56: fo
    <<<<104, 105>>>>,  \* 57: hi
    <<<<109, 116>>>>,  \* 58: mt
    <<<<115, 122>>>>,  \* 59: sz
    <<<<103, 97>>>>,  \* 60: ga
    <<>>,  \* 61
    <<<<109, 115>>>>,  \* 62: ms
    <<<<107, 107>>>>,  \* 63: kk
    <<>>,  \* 64
    <<<<115, 119>>>>,  \* 65: sw
    <<>>,  \* 66
    <<<<117, 122>>, <<117, 122>>, <<117, 122, 45, 117, 122>>>>,  \* 67: uz uz uz-uz
    <<<<116, 116>>>>,  \* 68: tt
    <<<<98, 110>>>>,  \* 69: bn
    <<<<112, 97>>>>,  \* 70: pa
    <<<<103, 117>>>>,  \* 71: gu
    <<<<111, 114>>>>,  \* 72: or
    <<<<116, 97>>>>,  \* 73: ta
    <<<<116, 101>>>>,  \* 74: te
    <<<<107, 110>>>>,  \* 75: kn
    <<<<109, 108>>>>,  \* 76: ml
    <<<<97, 115>>>>,  \* 77: as
    <<<<109, 114>>>>,  \* 78: mr
    <<<<115, 97>>>>,  \* 79: sa
    <<>>,  \* 80
    <<>>,  \* 81
    <<<<99, 121>>, <<99, 121, 45, 103, 98>>>>,  \* 82: cy cy-gb
    <<<<103, 108>>, <<103, 108, 45, 101, 115>>>>,  \* 83: gl gl-es
    <<>>,  \* 84
    <<>>,  \* 85
    <<>>,  \* 86
    <<<<120, 45, 107, 111, 107>>>>,  \* 87: x-kok
    <<>>,  \* 88
    <<>>,  \* 89
    <<>>,  \* 90
    <<>>,  \* 91
    <<>>,  \* 92
    <<>>,  \* 93
    <<>>,  \* 94
    <<>>,  \* 95
    <<>>,  \* 96
    <<<<110, 101>>>>,  \* 97: ne
    <<<<102, 121>>>>  \* 98: fy
>>

\* mobi_locale[lang_code][region_code]: <<>> for a NULL slot, <<string>> otherwise
mobi_locale(lang_code, region_code) ==
    IF region_code + 1 <= Len(mobi_locale_rows[lang_code + 1])
    THEN <<mobi_locale_rows[lang_code + 1][region_code + 1]>>
    ELSE <<>>

\* mobi_get_locale_string: <<>> for NULL, <<string>> otherwise
mobi_get_locale_string(locale_number) ==
    LET lang_code == locale_number % 256
        region_code == (locale_number \div 256) \div 4
    IN IF lang_code >= MOBI_LANG_MAX \/ region_code >= MOBI_REGION_MAX THEN <<>>
       ELSE LET string == mobi_locale(lang_code, region_code)
            IN IF string = <<>> \/ Len(string[1]) = 0 THEN <<>> ELSE string

tolower(c) == IF c \in 65..90 THEN c + 32 ELSE c

\* strncmp(a, b, 2) == 0
StrncmpEqual2(a, b) == SubSeq(a, 1, Min(2, Len(a))) = SubSeq(b, 1, Min(2, Len(b)))

\* the inner loop of mobi_get_locale_number: the outcomes [ub, val].  strcmp is
\* called on every slot of the row, NULL ones included; a call on a NULL slot has
\* no defined result (the search may stop with either number).
RECURSIVE RegionLoop(_, _, _)
RegionLoop(lower_locale, lang_code, region_code) ==
    IF region_code >= MOBI_REGION_MAX THEN {[ub |-> FALSE, val |-> lang_code]}
    ELSE LET slot == mobi_locale(lang_code, region_code)
         IN IF slot = <<>>
            THEN {[ub |-> TRUE, val |-> v] :
                    v \in {lang_code, (region_code * 4) * 256 + lang_code}}
            ELSE IF lower_locale = slot[1]
            THEN {[ub |-> FALSE, val |-> (region_code * 4) * 256 + lang_code]}
            ELSE RegionLoop(lower_locale, lang_code, region_code + 1)

\* the outer loop of mobi_get_locale_number: the first row, in table order, whose
\* first entry is not NULL and agrees with the tag on two characters decides
LangLoop(lower_locale, lang_code) ==
    LET matching == {l \in lang_code..(MOBI_LANG_MAX - 1) :
                        /\ mobi_locale(l, 0) # <<>>
                        /\ StrncmpEqual2(lower_locale, mobi_locale(l, 0)[1])}
    IN IF matching = {} THEN {[ub |-> FALSE, val |-> 0]}
       ELSE RegionLoop(lower_locale, CHOOSE l \in matching : \A k \in matching : l <= k, 0)

\* mobi_get_locale_number; locale_string is <<>> (NULL) or <<string>>
mobi_get_locale_number(locale_string) ==
    IF locale_string = <<>> \/ Len(locale_string[1]) < 2 THEN {[ub |-> FALSE, val |-> 0]}
    ELSE LangLoop([i \in 1..Len(locale_string[1]) |-> tolower(locale_string[1][i])], 0)

\* the locale numbers queried: every language byte, and the second byte up to
\* MaxRegionByte (region codes 0 .. MaxRegionByte \div 4)
MaxRegionByte == 84
LocaleNumbers == {hi * 256 + lo : hi \in 0..MaxRegionByte, lo \in 0..255}

\* tags handed to mobi_get_locale_number directly: NULL, "", "x", "EN-GB", "en-xx",
\* "ne", "nexus", "zz", "fy", "AR", "es-xx" (the one row without a NULL slot)
LocaleTags ==
    {<<>>, <<<<>>>>, <<<<120>>>>, <<<<69, 78, 45, 71, 66>>>>, <<<<101, 110, 45, 120, 120>>>>,
     <<<<110, 101>>>>, <<<<110, 101, 120, 117, 115>>>>, <<<<122, 122>>>>,
     <<<<102, 121>>>>, <<<<65, 82>>>>, <<<<101, 115, 45, 120, 120>>>>}

\* the input is a locale number to be converted to its string and back, or a tag
\* of the caller to be converted to a number
InitLocale ==
    /\ rec = LoadedRecords([k \in 2..MaxRecs |-> BOUNDARY_MAGIC])
    /\ exth = <<<<>>, <<>>>>
    /\ ph = MobipocketHeader
    /\ hdr = PlainHeaders
    /\ m = (1 :> [MobiInit EXCEPT !.ph = 1, !.rec = 1, !.rh = KF7, !.mh = KF7])
    /\ ret = MOBI_SUCCESS
    /\ ub = FALSE
    /\ \/ \E n \in LocaleNumbers : arg = [kind |-> "number", n |-> n, s |-> <<>>]
       \/ \E tag \in LocaleTags : arg = [kind |-> "tag", n |-> 0, s |-> tag]
    /\ res = NoQuery

\* s = mobi_get_locale_string(n)
LocaleStringCall ==
    /\ res.op = "none" /\ arg.kind = "number"
    /\ res' = [op |-> "mobi_get_locale_string", val |-> mobi_get_locale_string(arg.n)]
    /\ arg' = [arg EXCEPT !.s = mobi_get_locale_string(arg.n)]
    /\ UNCHANGED <<m, rec, exth, ph, hdr, ret, ub>>

\* mobi_get_locale_number(s) on the string the previous call returned
LocaleNumberOfStringCall ==
    /\ res.op = "mobi_get_locale_string"
    /\ \E o \in mobi_get_locale_number(arg.s) :
        /\ res' = [op |-> "mobi_get_locale_number", val |-> o.val]
        /\ ub' = o.ub
    /\ UNCHANGED <<m, rec, exth, ph, hdr, ret, arg>>

\* mobi_get_locale_number(tag) on a tag of the caller
LocaleNumberOfTagCall ==
    /\ res.op = "none" /\ arg.kind = "tag"
    /\ \E o \in mobi_get_locale_number(arg.s) :
        /\ res' = [op |-> "mobi_get_locale_number", val |-> o.val]
        /\ ub' = o.ub
    /\ UNCHANGED <<m, rec, exth, ph, hdr, ret, arg>>

NextLocale ==
    \/ LocaleStringCall
    \/ LocaleNumberOfStringCall
    \/ LocaleNumberOfTagCall

SpecLocale == InitLocale /\ [][NextLocale]_vars

\* n has the form (region * 4) << 8 | language
IsEncodedLocale(n) == (n \div 256) % 4 = 0

\* C4: for every locale number n whose locale string is not NULL,
\* mobi_get_locale_number(mobi_get_locale_string(n)) = n.  Stated for the numbers
\* of the form (region * 4) << 8 | language and the calls whose behaviour is
\* defined; it fails already for those.
C4_LocaleRoundTrip ==
    (res.op = "mobi_get_locale_number" /\ arg.kind = "number" /\ arg.s # <<>>
        /\ IsEncodedLocale(arg.n) /\ ~ub)
    => res.val = arg.n

(***************************************************************************)
(* CP1252 to UTF-8 conversion (SpecCp1252)                                 *)
(***************************************************************************)
\* cp1252_to_utf8[32][3]: the table for the bytes 0x80..0x9F, zero-padded
cp1252_to_utf8 == <<
    <<226, 130, 172>>,  \* 0x80
    <<0, 0, 0>>,  \* 0x81
    <<226, 128, 154>>,  \* 0x82
    <<198, 146, 0>>,  \* 0x83
    <<226, 128, 158>>,  \* 0x84
    <<226, 128, 166>>,  \* 0x85
    <<226, 128, 160>>,  \* 0x86
    <<226, 128, 161>>,  \* 0x87
    <<203, 134, 0>>,  \* 0x88
    <<226, 128, 176>>,  \* 0x89
    <<197, 160, 0>>,  \* 0x8A
    <<226, 128, 185>>,  \* 0x8B
    <<197, 146, 0>>,  \* 0x8C
    <<0, 0, 0>>,  \* 0x8D
    <<197, 189, 0>>,  \* 0x8E
    <<0, 0, 0>>,  \* 0x8F
    <<0, 0, 0>>,  \* 0x90
    <<226, 128, 152>>,  \* 0x91
    <<226, 128, 153>>,  \* 0x92
    <<226, 128, 156>>,  \* 0x93
    <<226, 128, 157>>,  \* 0x94
    <<226, 128, 162>>,  \* 0x95
    <<226, 128, 147>>,  \* 0x96
    <<226, 128, 148>>,  \* 0x97
    <<203, 156, 0>>,  \* 0x98
    <<226, 132, 162>>,  \* 0x99
    <<197, 161, 0>>,  \* 0x9A
    <<226, 128, 186>>,  \* 0x9B
    <<197, 147, 0>>,  \* 0x9C
    <<0, 0, 0>>,  \* 0x9D
    <<197, 190, 0>>,  \* 0x9E
    <<197, 184, 0>>  \* 0x9F
>>

\* the table lookup of mobi_cp1252_to_utf8: the bytes of the row up to the first 0
RECURSIVE TableLookup(_, _)
TableLookup(row, i) ==
    IF i >= 3 \/ row[i + 1] = 0 THEN <<>>
    ELSE <<row[i + 1]>> \o TableLookup(row, i + 1)

\* Mutant: an unassigned byte is converted to '?'
ConvertByteFillsUnassigned(c) ==
    IF c < 128 THEN <<c>>
    ELSE IF c < 160
    THEN IF TableLookup(cp1252_to_utf8[c - 128 + 1], 0) = <<>> THEN <<63>>
         ELSE TableLookup(cp1252_to_utf8[c - 128 + 1], 0)
    ELSE IF c < 192 THEN <<194, c>>
    ELSE <<195, (c % 64) + 128>>

\* Mutant: the bytes 0xC0..0xFF keep their value after the lead byte 0xC3
ConvertByteNoMask(c) ==
    IF c < 128 THEN <<c>>
    ELSE IF c < 160 THEN TableLookup(cp1252_to_utf8[c - 128 + 1], 0)
    ELSE IF c < 192 THEN <<194, c>>
    ELSE <<195, c>>

\* the bytes one iteration of the loop of mobi_cp1252_to_utf8 writes for *in = c;
\* none for an unassigned byte
ConvertByte(c) ==
    IF c < 128 THEN <<c>>
    ELSE IF c < 160 THEN TableLookup(cp1252_to_utf8[c - 128 + 1], 0)
    ELSE IF c < 192 THEN <<194, c>>
    ELSE <<195, (c % 64) + 128>>

\* the loop of mobi_cp1252_to_utf8 and what follows it.  buf is the memory input
\* points to, in the offset reached, out the bytes written so far.  The result is
\* [ret, out, nul, overread, read]: nul is whether the terminating 0 was written
\* (after out), overread whether *in was read at or beyond the end of buf, read the
\* number of bytes of input reached by a read (*in is read before in < inend is
\* tested).
RECURSIVE ConvertLoop(_, _, _, _, _)
ConvertLoop(buf, in, insize, out, outsize) ==
    LET overread == in >= Len(buf)
        c == IF overread THEN 0 ELSE buf[in + 1]
    IN IF c # 0 /\ in < insize /\ Len(out) < outsize
       THEN IF ConvertByte(c) = <<>>
            THEN [ret |-> MOBI_DATA_CORRUPT, out |-> out, nul |-> FALSE, overread |-> FALSE,
                  read |-> in + 1]
            ELSE ConvertLoop(buf, in + 1, insize, out \o ConvertByte(c), outsize)
       ELSE [ret |-> MOBI_SUCCESS, out |-> out, nul |-> TRUE, overread |-> overread,
             read |-> in + 1]

\* mobi_cp1252_to_utf8(output, input, outsize, insize): the outcomes
\* [ret, out, outsize, ub, wrote, read]; wrote and read are the numbers of bytes
\* of output and of input reached by a write and by a read.  input is <<>> (NULL) or <<buf>>, output_null whether
\* output is NULL; outsize is the value of *outsize on return.  A write at or
\* beyond output + *outsize, and a read beyond the input, are undefined: the call
\* may still behave as if the memory were there, or return either status.
mobi_cp1252_to_utf8(output_null, input, outsize, insize) ==
    IF output_null \/ input = <<>>
    THEN {[ret |-> MOBI_PARAM_ERR, out |-> <<>>, outsize |-> outsize, ub |-> FALSE,
           wrote |-> 0, read |-> 0]}
    ELSE LET r == ConvertLoop(input[1], 0, insize, <<>>, outsize)
             written == Len(r.out) + (IF r.nul THEN 1 ELSE 0)
             undefined == written > outsize \/ r.overread
             done == [ret |-> r.ret, out |-> r.out,
                      outsize |-> IF r.nul THEN Len(r.out) ELSE outsize,
                      ub |-> undefined, wrote |-> written, read |-> r.read]
         IN IF undefined
            THEN {[done EXCEPT !.ret = v] : v \in {MOBI_SUCCESS, MOBI_DATA_CORRUPT}}
            ELSE {done}

\* bounds and inputs: every single byte, and the strings of up to MaxLen bytes over
\* a palette (NUL, 'A', unassigned 0x81, two-byte 0x83, three-byte 0x92, 0xE9)
MaxLen == 3
RECURSIVE SeqsUpTo(_, _)
SeqsUpTo(S, n) ==
    IF n = 0 THEN {<<>>}
    ELSE LET shorter == SeqsUpTo(S, n - 1)
         IN shorter \cup {Append(t, x) : t \in {u \in shorter : Len(u) = n - 1}, x \in S}
Cp1252Palette == {0, 65, 129, 131, 146, 233}
Cp1252Strings == {<<b>> : b \in 0..255} \cup SeqsUpTo(Cp1252Palette, MaxLen)

\* the call made: a string of insize bytes, followed by a terminating 0 or not, or
\* a NULL input; an output buffer of outsize bytes, or a NULL output
InitCp1252 ==
    /\ rec = LoadedRecords([k \in 2..MaxRecs |-> BOUNDARY_MAGIC])
    /\ exth = <<<<>>, <<>>>>
    /\ ph = MobipocketHeader
    /\ hdr = PlainHeaders
    /\ m = (1 :> [MobiInit EXCEPT !.ph = 1, !.rec = 1, !.rh = KF7, !.mh = KF7])
    /\ ret = MOBI_SUCCESS
    /\ ub = FALSE
    /\ \E s \in Cp1252Strings, terminated \in BOOLEAN, outsize \in 0..(3 * MaxLen + 1),
          null \in {"none", "input", "output"} :
        arg = [s |-> s,
               input |-> IF null = "input" THEN <<>>
                         ELSE IF terminated THEN <<Append(s, 0)>> ELSE <<s>>,
               insize |-> Len(s),
               output_null |-> null = "output",
               outsize |-> outsize]
    /\ res = NoQuery

Cp1252ToUtf8Call ==
    /\ res.op = "none"
    /\ \E o \in mobi_cp1252_to_utf8(arg.output_null, arg.input, arg.outsize, arg.insize) :
        /\ res' = [op |-> "mobi_cp1252_to_utf8", val |-> o]
        /\ ret' = o.ret
        /\ ub' = o.ub
    /\ UNCHANGED <<m, rec, exth, ph, hdr, arg>>

NextCp1252 == Cp1252ToUtf8Call

SpecCp1252 == InitCp1252 /\ [][NextCp1252]_vars

\* Reference UTF-8 to CP1252 conversion, independent of the table of the code:
\* the Unicode code points of the CP1252 bytes 0x80..0x9F (0 where unassigned)
Cp1252CodePoints == <<
    8364, 0, 8218, 402, 8222, 8230, 8224, 8225, 710, 8240, 352, 8249, 338, 0, 381, 0,
    0, 8216, 8217, 8220, 8221, 8226, 8211, 8212, 732, 8482, 353, 8250, 339, 0, 382, 376
>>

\* the code points a UTF-8 byte sequence of up to three bytes per character
\* encodes; -1 marks an ill-formed sequence
RECURSIVE Utf8Decode(_)
Utf8Decode(u) ==
    IF u = <<>> THEN <<>>
    ELSE IF u[1] < 128 THEN <<u[1]>> \o Utf8Decode(Tail(u))
    ELSE IF u[1] \in 192..223 /\ Len(u) >= 2 /\ u[2] \in 128..191
    THEN <<(u[1] - 192) * 64 + (u[2] - 128)>> \o Utf8Decode(SubSeq(u, 3, Len(u)))
    ELSE IF u[1] \in 224..239 /\ Len(u) >= 3 /\ u[2] \in 128..191 /\ u[3] \in 128..191
    THEN <<(u[1] - 224) * 4096 + (u[2] - 128) * 64 + (u[3] - 128)>>
            \o Utf8Decode(SubSeq(u, 4, Len(u)))
    ELSE <<-1>>

\* the CP1252 byte of a code point; 256 when it has none
CodePointToCp1252(cp) ==
    IF cp \in 0..127 \/ cp \in 160..255 THEN cp
    ELSE IF \E k \in 1..32 : Cp1252CodePoints[k] # 0 /\ Cp1252CodePoints[k] = cp
    THEN 127 + (CHOOSE k \in 1..32 : Cp1252CodePoints[k] = cp)
    ELSE 256

Utf8ToCp1252(u) == [i \in 1..Len(Utf8Decode(u)) |-> CodePointToCp1252(Utf8Decode(u)[i])]

\* the five bytes CP1252 leaves unassigned
UnassignedCp1252 == {129, 141, 143, 144, 157}

\* a call on a NUL-terminated string with an output buffer of 3 * insize + 1 bytes
IsContractCall ==
    /\ res.op = "mobi_cp1252_to_utf8"
    /\ ~arg.output_null
    /\ arg.input = <<Append(arg.s, 0)>>
    /\ arg.outsize = 3 * arg.insize + 1

\* the call converted its string back and forth without loss
RoundTrips ==
    /\ res.val.ret = MOBI_SUCCESS
    /\ res.val.outsize = Len(res.val.out)
    /\ Utf8ToCp1252(res.val.out) = arg.s

\* C5 as stated: for every string whose bytes all lie in 0x20..0xFF, converted into
\* a buffer of 3 * len + 1 bytes, the call succeeds and the reference UTF-8 to
\* CP1252 conversion of its output is the string again.
C5_RoundTripAllBytes ==
    (IsContractCall /\ \A i \in 1..Len(arg.s) : arg.s[i] \in 32..255) => RoundTrips

\* C5, amended: the same for every string whose bytes lie in 0x20..0xFF and are
\* none of the five unassigned bytes 0x81, 0x8D, 0x8F, 0x90, 0x9D.
C5_RoundTripAssignedBytes ==
    (IsContractCall
        /\ \A i \in 1..Len(arg.s) : arg.s[i] \in (32..255) \ UnassignedCp1252)
    => RoundTrips

\* a three-byte table entry, a byte of 0xC0..0xFF and an ASCII byte went through
C5_Witness ==
    /\ IsContractCall
    /\ arg.s = <<146, 233, 65>>
    /\ res.val.out = <<226, 128, 153, 195, 169, 65>>

\* the part of the input the call converts when its buffers are large enough: the
\* bytes before the first 0
RECURSIVE UpToNul(_)
UpToNul(s) == IF s = <<>> \/ s[1] = 0 THEN <<>> ELSE <<s[1]>> \o UpToNul(Tail(s))

\* the UTF-8 bytes expected for a CP1252 byte: its table row without the padding
\* for 0x80..0x9F, the encoding of the code point of the same value otherwise
ExpectedUtf8(c) ==
    IF c < 128 THEN <<c>>
    ELSE IF c < 160 THEN SelectSeq(cp1252_to_utf8[c - 127], LAMBDA x : x # 0)
    ELSE <<192 + (c \div 64), 128 + (c % 64)>>

RECURSIVE ExpectedOutput(_)
ExpectedOutput(s) ==
    IF s = <<>> THEN <<>> ELSE ExpectedUtf8(s[1]) \o ExpectedOutput(Tail(s))

\* C6: a call with defined behaviour returns MOBI_DATA_CORRUPT exactly when the
\* converted part of the input contains one of the five unassigned bytes; otherwise
\* it returns MOBI_SUCCESS and every byte of 0x80..0x9F has been replaced by its
\* non-empty table entry.
C6_CorruptIffUnassigned ==
    (res.op = "mobi_cp1252_to_utf8" /\ ~arg.output_null /\ arg.input # <<>> /\ ~ub)
    => LET text == UpToNul(arg.s)
           unassigned == \E i \in 1..Len(text) : text[i] \in UnassignedCp1252
       IN /\ res.val.ret = MOBI_DATA_CORRUPT <=> unassigned
          /\ ~unassigned =>
                /\ res.val.ret = MOBI_SUCCESS
                /\ res.val.out = ExpectedOutput(text)
                /\ \A i \in 1..Len(text) :
                      text[i] \in 128..159 => ExpectedUtf8(text[i]) # <<>>

\* an unassigned byte after an assigned one, and a string of assigned table bytes
C6_Witness ==
    /\ res.op = "mobi_cp1252_to_utf8" /\ ~ub
    /\ \/ arg.s = <<146, 129, 65>> /\ res.val.ret = MOBI_DATA_CORRUPT
       \/ arg.s = <<131, 146>> /\ res.val.ret = MOBI_SUCCESS
             /\ res.val.out = <<198, 146, 226, 128, 153>>

(***************************************************************************)
(* Text and full name of a loaded document (SpecText)                      *)
(***************************************************************************)
RECORD0_NO_COMPRESSION == 1
RECORD0_PALMDOC_COMPRESSION == 2
RECORD0_HUFF_COMPRESSION == 17480
RECORD0_OLD_ENCRYPTION == 1
RECORD0_MOBI_ENCRYPTION == 2
RECORD0_TEXT_SIZE_MAX == 4096

\* the Record 0 header m->rh points to (m->rh != NULL)
Rh(h) == hdr[m[h].rh].rh

\* mobi_is_mobipocket
mobi_is_mobipocket(h) ==
    IF h = NULL \/ (h # NULL /\ m[h].ph = NULL) THEN FALSE
    ELSE ph.type = "BOOK" /\ ph.creator = "MOBI"

\* Mutant: only the Mobipocket encryption scheme counts as encryption
IsEncryptedOnlyMobi(h) ==
    IF h = NULL THEN FALSE
    ELSE /\ mobi_is_mobipocket(h)
         /\ m[h].rh # NULL
         /\ Rh(h).encryption_type = RECORD0_MOBI_ENCRYPTION

\* mobi_is_encrypted
mobi_is_encrypted(h) ==
    IF h = NULL THEN FALSE
    ELSE /\ mobi_is_mobipocket(h)
         /\ m[h].rh # NULL
         /\ Rh(h).encryption_type \in {RECORD0_OLD_ENCRYPTION, RECORD0_MOBI_ENCRYPTION}

\* mobi_get_record_extrasize for the multibyte flag (bit 0 of extra_flags), the only
\* flag the documents of the model set: the low two bits of the last byte, plus one
mobi_get_record_extrasize(r, extra_flags) ==
    IF extra_flags[2] % 2 = 0 THEN W(0)
    ELSE IF r.size = 0 THEN MOBI_NOTSET
    ELSE W((r.data[r.size] % 4) + 1)

\* mobi_decompress_lz77 / mobi_decompress_huffman on the first record_size bytes of
\* a record: the bytes [out] they can leave in the 4096-byte buffer and the status
\* [ret] they return.  The record's own bytes stand for a complete decompression;
\* a decompression that fails on an illegal back-reference leaves what it had
\* written so far, one that runs out of buffer is modelled as leaving nothing.
\* Both are handed the buffer's size, RECORD0_TEXT_SIZE_MAX, and keep to it.
Decompressors(data, record_size) ==
    {[out |-> SubSeq(data, 1, record_size), ret |-> MOBI_SUCCESS] :
        fits \in {TRUE} \ {record_size > RECORD0_TEXT_SIZE_MAX}}
    \cup {[out |-> SubSeq(data, 1, Min(record_size - 1, RECORD0_TEXT_SIZE_MAX)),
           ret |-> MOBI_DATA_CORRUPT],
          [out |-> <<>>, ret |-> MOBI_BUFFER_END]}

\* mutant: only an undeterminable trailer size is refused
TrailerCorruptIfNotset(r, extra_size) == extra_size = MOBI_NOTSET

\* extra_size == MOBI_NOTSET || extra_size >= curr->size
TrailerCorrupt(r, extra_size) ==
    extra_size = MOBI_NOTSET \/ ~U32Less(extra_size, W(r.size))

\* the record loop of mobi_decompress_content: the outcomes [ret, text, len, ub]
\* and, of what went on inside, [failed, placed, wrote]: the first status other
\* than MOBI_SUCCESS a decompressor returned ("none" without one), the largest
\* number of bytes put in the per-record buffer, and the number of bytes of the
\* caller's buffer reached by a write.
\* text is the output so far, len the size of the caller's buffer (dump = FALSE).
RECURSIVE DecompressLoop(_, _, _, _, _, _, _, _)
DecompressLoop(curr, count, compression_type, extra_flags, dump, text, len, undefined) ==
    IF count = 0 \/ curr = NULL
    THEN {[ret |-> MOBI_SUCCESS, text |-> text,
           len |-> IF dump THEN len ELSE Len(text), ub |-> undefined,
           failed |-> "none", placed |-> 0, wrote |-> 0]}
    ELSE LET r == rec[curr]
             extra_size == IF extra_flags # W(0)
                           THEN mobi_get_record_extrasize(r, extra_flags) ELSE W(0)
             record_size == r.size - extra_size[2]
             decompressed ==
                IF compression_type = RECORD0_NO_COMPRESSION
                THEN {[out |-> r.data, ret |-> MOBI_SUCCESS]}
                ELSE Decompressors(r.data, record_size)
             \* a released record is read, or more than 4096 bytes are copied
             Overrun(d) == r.freed \/ Len(d) > RECORD0_TEXT_SIZE_MAX
             \* what this record adds to [failed, placed, wrote] of the records after it
             Seen(o, status, d, reach) ==
                [o EXCEPT !.failed = IF status # MOBI_SUCCESS THEN status ELSE o.failed,
                          !.placed = IF Len(d) > o.placed THEN Len(d) ELSE o.placed,
                          !.wrote = IF reach > o.wrote THEN reach ELSE o.wrote]
             Append1(d) ==
                IF dump
                THEN DecompressLoop(r.next, count - 1, compression_type, extra_flags,
                                    dump, text \o d, len, undefined \/ Overrun(d))
                ELSE IF Len(text) > len
                THEN {[ret |-> MOBI_PARAM_ERR, text |-> text, len |-> len,
                       ub |-> undefined \/ Overrun(d),
                       failed |-> "none", placed |-> 0, wrote |-> 0]}
                ELSE DecompressLoop(r.next, count - 1, compression_type, extra_flags,
                                    dump, text \o d, len,
                                    undefined \/ Overrun(d) \/ Len(text) + Len(d) + 1 > len)
         IN IF extra_flags # W(0) /\ TrailerCorrupt(r, extra_size)
            THEN {[ret |-> MOBI_DATA_CORRUPT, text |-> text, len |-> len,
                   ub |-> undefined \/ r.freed,
                   failed |-> "none", placed |-> 0, wrote |-> 0]}
            ELSE IF compression_type \notin {RECORD0_NO_COMPRESSION,
                        RECORD0_PALMDOC_COMPRESSION, RECORD0_HUFF_COMPRESSION}
            THEN {[ret |-> MOBI_DATA_CORRUPT, text |-> text, len |-> len,
                   ub |-> undefined \/ r.freed,
                   failed |-> "none", placed |-> 0, wrote |-> 0]}
            ELSE UNION {{Seen(o, d.ret, d.out,
                                  IF dump \/ Len(text) > len THEN 0
                                  ELSE Len(text) + Len(d.out) + 1) :
                             o \in Append1(d.out)} : d \in decompressed}

\* mobi_decompress_content(m, text, file, len); dump is file != NULL.  Loading the
\* HUFF/CDIC tables can fail with MOBI_MALLOC_FAILED or with the status of
\* mobi_parse_huffdic.
mobi_decompress_content(h, dump, len, undefined) ==
    LET Fail(code) == {[ret |-> code, text |-> <<>>, len |-> len, ub |-> undefined,
                        failed |-> "none", placed |-> 0, wrote |-> 0]}
    IN IF mobi_is_encrypted(h) THEN Fail(MOBI_FILE_ENCRYPTED)
       ELSE IF h = NULL THEN Fail(MOBI_INIT_FAILED)
       ELSE IF m[h].rh = NULL \/ (m[h].rh # NULL /\ Rh(h).text_record_count = 0)
       THEN Fail(MOBI_DATA_CORRUPT)
       ELSE LET offset == mobi_get_kf8offset(h)
                text_rec_index == U32Inc(offset)
                extra_flags == IF m[h].mh # NULL /\ Mh(h).extra_flags # ABSENT
                               THEN Mh(h).extra_flags ELSE W(0)
                curr == mobi_get_record_by_seqnumber(h, text_rec_index)
                loop == DecompressLoop(curr, Rh(h).text_record_count,
                                       Rh(h).compression_type, extra_flags,
                                       dump, <<>>, len, undefined)
            IN IF Rh(h).compression_type = RECORD0_HUFF_COMPRESSION
               THEN Fail(MOBI_MALLOC_FAILED) \cup Fail(MOBI_DATA_CORRUPT) \cup loop
               ELSE loop

\* mobi_get_rawml(m, text, len) with a text buffer of len bytes.  m->rh is read
\* without a check, and text[0] is written before anything is known about len.
mobi_get_rawml(h, len) ==
    IF h = NULL \/ (h # NULL /\ m[h].rh = NULL)
    THEN {[ret |-> v, text |-> <<>>, len |-> len, ub |-> TRUE,
           failed |-> "none", placed |-> 0, wrote |-> 0] :
            v \in {MOBI_PARAM_ERR, MOBI_INIT_FAILED}}
    ELSE IF U32Less(W(len), Rh(h).text_length)
    THEN {[ret |-> MOBI_PARAM_ERR, text |-> <<>>, len |-> len, ub |-> FALSE,
           failed |-> "none", placed |-> 0, wrote |-> 0]}
    ELSE {[o EXCEPT !.wrote = IF o.wrote = 0 THEN 1 ELSE o.wrote] :
            o \in mobi_decompress_content(h, FALSE, len, len = 0)}

\* mobi_dump_rawml(m, file)
mobi_dump_rawml(h, file_null) ==
    IF file_null
    THEN {[ret |-> MOBI_FILE_NOT_FOUND, text |-> <<>>, len |-> 0, ub |-> FALSE,
           failed |-> "none", placed |-> 0, wrote |-> 0]}
    ELSE mobi_decompress_content(h, TRUE, 0, FALSE)

\* mobi_get_fullname(m, fullname, len): [ret, text, ub].  The copy reads
\* min(len, full_name_length) bytes at full_name_offset of Record 0 and writes the
\* terminating 0 after them: the read can leave Record 0, the write the buffer.
\* [wrote, read] are the number of bytes of fullname reached by a write and the
\* number of bytes of Record 0 reached by a read.
mobi_get_fullname(h, fullname_null, len) ==
    IF fullname_null \/ len = 0
    THEN [ret |-> MOBI_PARAM_ERR, text |-> <<>>, ub |-> FALSE, wrote |-> 0, read |-> 0]
    ELSE IF h = NULL
    THEN [ret |-> MOBI_INIT_FAILED, text |-> <<>>, ub |-> FALSE, wrote |-> 1, read |-> 0]
    ELSE LET offset == mobi_get_kf8offset(h)
             record0 == mobi_get_record_by_seqnumber(h, offset)
         IN IF \/ m[h].mh = NULL
               \/ (m[h].mh # NULL /\ (Mh(h).full_name_offset = ABSENT
                                      \/ Mh(h).full_name_length = ABSENT))
               \/ record0 = NULL
            THEN [ret |-> MOBI_INIT_FAILED, text |-> <<>>, ub |-> FALSE,
                  wrote |-> 1, read |-> 0]
            ELSE LET size == IF U32Less(Mh(h).full_name_length, W(len))
                             THEN Mh(h).full_name_length[2] ELSE len
                     from == Mh(h).full_name_offset[2]
                     data == rec[record0].data
                 IN [ret |-> MOBI_SUCCESS,
                     text |-> SubSeq(data, from + 1, Min(from + size, Len(data))),
                     ub |-> \/ rec[record0].freed
                            \/ from + size > Len(data)
                            \/ size >= len,
                     wrote |-> size + 1,
                     read |-> IF size = 0 THEN 0 ELSE from + size]

\* bound on the buffer lengths handed to mobi_get_rawml and mobi_get_fullname
MaxBuf == 11

\* Record 0 prefixes: every compression code (0 is an unknown one), every
\* encryption code, a text of up to two records
TextRecord0Headers ==
    {[compression_type |-> c, text_length |-> t, text_record_count |-> n,
      text_record_size |-> RECORD0_TEXT_SIZE_MAX, encryption_type |-> e] :
        c \in {0, RECORD0_NO_COMPRESSION, RECORD0_PALMDOC_COMPRESSION,
               RECORD0_HUFF_COMPRESSION},
        t \in {W(2), W(6)},
        n \in 0..2,
        e \in {0, RECORD0_OLD_ENCRYPTION, RECORD0_MOBI_ENCRYPTION}}

\* MOBI headers: without a full name, with a full name inside Record 0 (with and
\* without the multibyte trailer flag), with a full name that leaves Record 0
TextMobiHeaders ==
    {EmptyMobiHeader,
     [EmptyMobiHeader EXCEPT !.full_name_offset = W(1), !.full_name_length = W(2)],
     [EmptyMobiHeader EXCEPT !.full_name_offset = W(1), !.full_name_length = W(2),
                             !.extra_flags = W(1)],
     [EmptyMobiHeader EXCEPT !.full_name_offset = W(2), !.full_name_length = W(4)]}

\* the calls: [kind, len, null], null being a NULL file or a NULL fullname
TextCalls ==
    {[kind |-> "mobi_get_rawml", len |-> n, null |-> FALSE] : n \in 0..MaxBuf}
    \cup {[kind |-> "mobi_dump_rawml", len |-> 0, null |-> b] : b \in BOOLEAN}
    \cup {[kind |-> "mobi_get_fullname", len |-> n, null |-> b] :
            n \in 0..MaxBuf, b \in BOOLEAN}

\* a loaded document, Mobipocket or PalmDOC, with or without a MOBI header, read
\* as KF7 or KF8; record 1 holds "Hi", the later records "BOUNDARY"
InitText ==
    /\ rec = LoadedRecords([k \in 2..MaxRecs |->
                                IF k = 2 THEN <<72, 105>> ELSE BOUNDARY_MAGIC])
    /\ exth = <<<<>>, <<>>>>
    /\ ph \in {MobipocketHeader, [type |-> "TEXt", creator |-> "REAd"]}
    /\ \E rh \in TextRecord0Headers, mh \in TextMobiHeaders :
        hdr = <<[rh |-> rh, mh |-> mh], [rh |-> rh, mh |-> mh]>>
    /\ \E has_mh \in BOOLEAN,
          kf8 \in {<<TRUE, MOBI_NOTSET>>, <<TRUE, W(1)>>, <<FALSE, W(1)>>} :
        m = (1 :> [MobiInit EXCEPT !.ph = 1, !.rec = 1, !.rh = KF7,
                                   !.mh = IF has_mh THEN KF7 ELSE NULL,
                                   !.use_kf8 = kf8[1], !.kf8_boundary_offset = kf8[2]])
    /\ ret = MOBI_SUCCESS
    /\ ub = FALSE
    /\ arg \in TextCalls
    /\ res = NoQuery

GetRawmlCall ==
    /\ res.op = "none" /\ arg.kind = "mobi_get_rawml"
    /\ \E o \in mobi_get_rawml(1, arg.len) :
        /\ res' = [op |-> "mobi_get_rawml", val |-> [text |-> o.text, len |-> o.len, failed |-> o.failed,
                                                 placed |-> o.placed, wrote |-> o.wrote]]
        /\ ret' = o.ret
        /\ ub' = o.ub
    /\ UNCHANGED <<m, rec, exth, ph, hdr, arg>>

DumpRawmlCall ==
    /\ res.op = "none" /\ arg.kind = "mobi_dump_rawml"
    /\ \E o \in mobi_dump_rawml(1, arg.null) :
        /\ res' = [op |-> "mobi_dump_rawml", val |-> [text |-> o.text, len |-> o.len, failed |-> o.failed,
                                                 placed |-> o.placed, wrote |-> o.wrote]]
        /\ ret' = o.ret
        /\ ub' = o.ub
    /\ UNCHANGED <<m, rec, exth, ph, hdr, arg>>

GetFullnameCall ==
    /\ res.op = "none" /\ arg.kind = "mobi_get_fullname"
    /\ LET o == mobi_get_fullname(1, arg.null, arg.len)
       IN /\ res' = [op |-> "mobi_get_fullname", val |-> [text |-> o.text, len |-> arg.len,
                                                           wrote |-> o.wrote, read |-> o.read]]
          /\ ret' = o.ret
          /\ ub' = o.ub
    /\ UNCHANGED <<m, rec, exth, ph, hdr, arg>>

NextText ==
    \/ GetRawmlCall
    \/ DumpRawmlCall
    \/ GetFullnameCall

SpecText == InitText /\ [][NextText]_vars

\* a Mobipocket document whose Record 0 carries encryption code 1 or 2
IsEncryptedDocument ==
    /\ ph = MobipocketHeader
    /\ Rh(1).encryption_type \in {RECORD0_OLD_ENCRYPTION, RECORD0_MOBI_ENCRYPTION}

\* mobi_get_fullname was given a buffer, and the document a full name it can copy
\* without leaving Record 0 or the buffer
FullnameAvailable ==
    /\ ~arg.null /\ arg.len > 0
    /\ m[1].mh # NULL
    /\ Mh(1).full_name_offset # ABSENT /\ Mh(1).full_name_length # ABSENT
    /\ mobi_get_record_by_seqnumber(1, mobi_get_kf8offset(1)) # NULL
    /\ ~ub

\* C7 as stated: on an encrypted document mobi_get_rawml, whatever the length of
\* its buffer, and mobi_dump_rawml return MOBI_FILE_ENCRYPTED, and mobi_get_fullname
\* returns MOBI_SUCCESS.
C7_EncryptedForAnyLength ==
    IsEncryptedDocument =>
        /\ res.op = "mobi_get_rawml" => ret = MOBI_FILE_ENCRYPTED
        /\ (res.op = "mobi_dump_rawml" /\ ~arg.null) => ret = MOBI_FILE_ENCRYPTED
        /\ (res.op = "mobi_get_fullname" /\ FullnameAvailable) => ret = MOBI_SUCCESS

\* C7, amended: on an encrypted Mobipocket document mobi_dump_rawml returns
\* MOBI_FILE_ENCRYPTED; mobi_get_rawml returns MOBI_FILE_ENCRYPTED when its buffer
\* is at least as long as the text length declared in Record 0 and MOBI_PARAM_ERR
\* when it is shorter; mobi_get_fullname returns MOBI_SUCCESS when the document has
\* a full name.  Nothing is written to the text in either case.
C7_EncryptedForAdequateLength ==
    IsEncryptedDocument =>
        /\ res.op = "mobi_get_rawml" =>
              /\ ret = IF U32Less(W(arg.len), Rh(1).text_length)
                       THEN MOBI_PARAM_ERR ELSE MOBI_FILE_ENCRYPTED
              /\ res.val.text = <<>>
        /\ (res.op = "mobi_dump_rawml" /\ ~arg.null) =>
              ret = MOBI_FILE_ENCRYPTED /\ res.val.text = <<>>
        /\ (res.op = "mobi_get_fullname" /\ FullnameAvailable) => ret = MOBI_SUCCESS

\* text was requested from a document with old-style encryption and was refused
C7_Witness ==
    /\ IsEncryptedDocument
    /\ Rh(1).encryption_type = RECORD0_OLD_ENCRYPTION
    /\ res.op = "mobi_get_rawml"
    /\ ~U32Less(W(arg.len), Rh(1).text_length)
    /\ ret = MOBI_FILE_ENCRYPTED

(***************************************************************************)
(* Audio and video resources (SpecMedia)                                   *)
(***************************************************************************)
MEDIA_HEADER_LEN == 12
AUDI_MAGIC == <<65, 85, 68, 73>>
VIDE_MAGIC == <<86, 73, 68, 69>>

\* buffer_get32 at offset 4 of the record: the big-endian word, as two half-words
buffer_get32(data, offset) ==
    <<data[offset + 1] * 256 + data[offset + 2], data[offset + 3] * 256 + data[offset + 4]>>

\* buf->maxlen - buf->offset in size_t: the difference, or, when the offset is
\* larger than the length, the wrapped value 2^64 - val
SizeSub(maxlen, offset) ==
    IF offset[1] = 0 /\ offset[2] <= maxlen
    THEN [wrapped |-> FALSE, val |-> maxlen - offset[2]]
    ELSE [wrapped |-> TRUE,
          val |-> IF offset[1] = 0 THEN offset[2] - maxlen ELSE HALF]

\* mobi_decode_audio_resource / mobi_decode_video_resource, which differ in the
\* magic only: the outcomes [ret, start, size, ub].  start is the offset into the
\* record *decoded_resource points to, size is *decoded_size.  buffer_init_null
\* can return NULL (malloc_ok = FALSE), and buf->data is written without a check.
DecodeMedia(part, magic, malloc_ok) ==
    IF part.size < MEDIA_HEADER_LEN
    THEN {[ret |-> MOBI_DATA_CORRUPT, storage |-> "unset", start |-> 0, size |-> SizeSub(0, W(0)),
           ub |-> FALSE]}
    ELSE IF ~malloc_ok
    THEN {[ret |-> v, storage |-> "unset", start |-> 0, size |-> SizeSub(0, W(0)), ub |-> TRUE] :
            v \in {MOBI_SUCCESS, MOBI_DATA_CORRUPT}}
    ELSE IF SubSeq(part.data, 1, 4) # magic
    THEN {[ret |-> MOBI_DATA_CORRUPT, storage |-> "unset", start |-> 0, size |-> SizeSub(0, W(0)),
           ub |-> FALSE]}
    ELSE {[ret |-> MOBI_SUCCESS, storage |-> "record", start |-> 0,
           size |-> SizeSub(part.size, buffer_get32(part.data, 4)), ub |-> FALSE]}

mobi_decode_audio_resource(part, malloc_ok) == DecodeMedia(part, AUDI_MAGIC, malloc_ok)

mobi_decode_video_resource(part, malloc_ok) == DecodeMedia(part, VIDE_MAGIC, malloc_ok)

\* bounds and inputs: records made of a magic, a media offset, four more header
\* bytes and a body of up to MaxBody bytes, whole or cut short
MaxBody == 2
MediaBodies == SeqsUpTo({1, 2}, MaxBody)
MediaOffsets ==
    {<<0, 0, 0, o>> : o \in {0, 8} \cup (MEDIA_HEADER_LEN..(MEDIA_HEADER_LEN + MaxBody + 1))}
    \cup {<<0, 1, 0, 0>>}
MediaRecords ==
    LET whole == {magic \o o \o <<0, 0, 0, 1>> \o body :
                    magic \in {AUDI_MAGIC, VIDE_MAGIC, <<65, 85, 68, 88>>},
                    o \in MediaOffsets, body \in MediaBodies}
    IN whole \cup {SubSeq(r, 1, n) : r \in whole, n \in {0, 4, MEDIA_HEADER_LEN - 1}}

InitMedia ==
    /\ rec = LoadedRecords([k \in 2..MaxRecs |-> BOUNDARY_MAGIC])
    /\ exth = <<<<>>, <<>>>>
    /\ ph = MobipocketHeader
    /\ hdr = PlainHeaders
    /\ m = (1 :> [MobiInit EXCEPT !.ph = 1, !.rec = 1, !.rh = KF7, !.mh = KF7])
    /\ ret = MOBI_SUCCESS
    /\ ub = FALSE
    /\ \E data \in MediaRecords, kind \in {"audio", "video"} :
        arg = [kind |-> kind, part |-> [data |-> data, size |-> Len(data)]]
    /\ res = NoQuery

DecodeAudioCall ==
    /\ res.op = "none" /\ arg.kind = "audio"
    /\ \E malloc_ok \in BOOLEAN : \E o \in mobi_decode_audio_resource(arg.part, malloc_ok) :
        /\ res' = [op |-> "mobi_decode_audio_resource",
                   val |-> [storage |-> o.storage, start |-> o.start, size |-> o.size,
                            record |-> arg.part.data]]
        /\ ret' = o.ret
        /\ ub' = o.ub
    /\ UNCHANGED <<m, rec, exth, ph, hdr, arg>>

DecodeVideoCall ==
    /\ res.op = "none" /\ arg.kind = "video"
    /\ \E malloc_ok \in BOOLEAN : \E o \in mobi_decode_video_resource(arg.part, malloc_ok) :
        /\ res' = [op |-> "mobi_decode_video_resource",
                   val |-> [storage |-> o.storage, start |-> o.start, size |-> o.size,
                            record |-> arg.part.data]]
        /\ ret' = o.ret
        /\ ub' = o.ub
    /\ UNCHANGED <<m, rec, exth, ph, hdr, arg>>

NextMedia ==
    \/ DecodeAudioCall
    \/ DecodeVideoCall

SpecMedia == InitMedia /\ [][NextMedia]_vars

\* C10: for a record of size S >= 12 with the magic of the call and a media offset
\* o <= S the call returns MOBI_SUCCESS and the decoded bytes are record[o .. S-1];
\* for a wrong magic or a record shorter than the header it returns
\* MOBI_DATA_CORRUPT.  Stated for the calls whose allocation succeeds.
C10_DecodedIsMediaBody ==
    (res.op \in {"mobi_decode_audio_resource", "mobi_decode_video_resource"} /\ ~ub)
    => LET data == arg.part.data
           S == arg.part.size
           magic == IF arg.kind = "audio" THEN AUDI_MAGIC ELSE VIDE_MAGIC
       IN IF S >= MEDIA_HEADER_LEN /\ SubSeq(data, 1, 4) = magic
          THEN LET o == buffer_get32(data, 4)
               IN (o[1] = 0 /\ o[2] <= S) =>
                    /\ ret = MOBI_SUCCESS
                    /\ ~res.val.size.wrapped
                    /\ res.val.size.val = S - o[2]
                    /\ SubSeq(data, res.val.start + 1, res.val.start + res.val.size.val)
                         = SubSeq(data, o[2] + 1, S)
          ELSE ret = MOBI_DATA_CORRUPT

(***************************************************************************)
(* Font resources (SpecFont)                                               *)
(***************************************************************************)
FONT_HEADER_LEN == 24
FONT_MAGIC == <<70, 79, 78, 84>>
XOR_LIMIT == 1040

\* a ^ b on bytes
RECURSIVE BitXor(_, _)
BitXor(a, b) ==
    IF a = 0 THEN b
    ELSE IF b = 0 THEN a
    ELSE (((a % 2) + (b % 2)) % 2) + 2 * BitXor(a \div 2, b \div 2)

\* the value of a 32-bit word whose upper half-word is small
ToNat(w) == w[1] * HALF + w[2]

\* the header of a FONT record as mobi_decode_font_resource reads it
FontHeader(data) ==
    [decoded_size |-> buffer_get32(data, 4),
     flags        |-> buffer_get32(data, 8),
     data_offset  |-> buffer_get32(data, 12),
     xor_key_len  |-> buffer_get32(data, 16),
     xor_data_off |-> buffer_get32(data, 20)]

\* the deobfuscation loop of mobi_decode_font_resource on the record copy buf:
\* the outcomes [buf, ub].  The key byte is read from the copy as it is at that
\* moment, at xor_data_off + i % xor_key_len, without a bound; the remainder has no
\* defined value for xor_key_len = 0, nor has a byte read beyond the copy.
RECURSIVE XorLoop(_, _, _, _, _)
XorLoop(buf, offset, i, xor_data_off, xor_key_len) ==
    IF ~(offset < Len(buf) /\ i < XOR_LIMIT) THEN {[buf |-> buf, ub |-> FALSE]}
    ELSE IF xor_key_len = 0 THEN {[buf |-> buf, ub |-> TRUE]}
    ELSE LET p == xor_data_off + (i % xor_key_len)
             keys == IF p < Len(buf) THEN {buf[p + 1]} ELSE {0, 165}
         IN UNION {
              {[o EXCEPT !.ub = o.ub \/ p >= Len(buf)] :
                  o \in XorLoop([buf EXCEPT ![offset + 1] = BitXor(buf[offset + 1], k)],
                                offset + 1, i + 1, xor_data_off, xor_key_len)} :
              k \in keys}

\* m_uncompress(dest, &dest_len, source, source_len) with dest_len = decoded_size:
\* the sizes it can report on success (it fails when the output does not fit);
\* -1 stands for a failure
Uncompress(decoded_size) == {-1} \cup 0..decoded_size

\* mobi_decode_font_resource(decoded_font, decoded_size, part): the outcomes
\* [ret, buf, font, size, xor_ub, ub].  buf is the record copy after the
\* deobfuscation, font the bytes written to *decoded_font, size the value of
\* *decoded_size.  buffer_init and malloc can return NULL (buf_ok, font_ok), and
\* neither result is tested.
mobi_decode_font_resource(part, buf_ok, font_ok) ==
    LET Out(code, buf, font, size, xor_ub, undefined) ==
            [ret |-> code, buf |-> buf, font |-> font, size |-> size,
             xor_ub |-> xor_ub, ub |-> undefined]
    IN IF part.size < FONT_HEADER_LEN
       THEN {Out(MOBI_DATA_CORRUPT, <<>>, <<>>, 0, FALSE, FALSE)}
       ELSE IF ~buf_ok
       THEN {Out(v, <<>>, <<>>, 0, FALSE, TRUE) : v \in {MOBI_SUCCESS, MOBI_DATA_CORRUPT}}
       ELSE IF SubSeq(part.data, 1, 4) # FONT_MAGIC
       THEN {Out(MOBI_DATA_CORRUPT, part.data, <<>>, 0, FALSE, FALSE)}
       ELSE LET h == FontHeader(part.data)
                data_offset == ToNat(h.data_offset)
                decoded_size == ToNat(h.decoded_size)
                xored == IF (h.flags[2] \div 2) % 2 = 1
                         THEN XorLoop(part.data, data_offset, 0,
                                      ToNat(h.xor_data_off), ToNat(h.xor_key_len))
                         ELSE {[buf |-> part.data, ub |-> FALSE]}
                Finish(x) ==
                    LET encoded == SubSeq(x.buf, data_offset + 1, Len(x.buf))
                        wrapped == data_offset > Len(x.buf)
                    IN IF h.flags[2] % 2 = 1
                       THEN {IF n = decoded_size
                             THEN Out(MOBI_SUCCESS, x.buf, <<>>, n, x.ub,
                                      x.ub \/ wrapped \/ ~font_ok)
                             ELSE Out(MOBI_DATA_CORRUPT, x.buf, <<>>, IF n < 0 THEN decoded_size ELSE n,
                                      x.ub, x.ub \/ wrapped \/ ~font_ok) :
                             n \in Uncompress(decoded_size)}
                       ELSE {Out(MOBI_SUCCESS, x.buf, encoded, decoded_size, x.ub,
                                 \/ x.ub
                                 \/ wrapped
                                 \/ Len(encoded) > decoded_size
                                 \/ (~font_ok /\ Len(encoded) > 0))}
            IN UNION {Finish(x) : x \in xored}

\* bounds and inputs: FONT records made of the 24-byte header and up to
\* MaxFontTail further bytes (17, 34, 51, ...), whole or cut short
MaxFontTail == 4
Be32(w) == <<w[1] \div 256, w[1] % 256, w[2] \div 256, w[2] % 256>>
FontTails == {[k \in 1..n |-> (17 * k) % 256] : n \in 0..MaxFontTail}
FontRecords ==
    LET whole == {magic \o Be32(W(decoded_size)) \o Be32(W(flags)) \o Be32(data_offset)
                    \o Be32(W(xor_key_len)) \o Be32(xor_data_off) \o tail :
                    magic \in {FONT_MAGIC, <<70, 79, 78, 88>>},
                    decoded_size \in {0, 2, MaxFontTail},
                    flags \in 0..3,
                    data_offset \in {W(o) : o \in FONT_HEADER_LEN..(FONT_HEADER_LEN + MaxFontTail + 1)}
                                    \cup {<<1, 0>>},
                    xor_key_len \in 0..2,
                    xor_data_off \in {W(FONT_HEADER_LEN), W(FONT_HEADER_LEN + 1),
                                      W(FONT_HEADER_LEN + MaxFontTail), <<1, 0>>},
                    tail \in FontTails}
    IN whole \cup {SubSeq(FONT_MAGIC \o Be32(W(0)), 1, n) : n \in {0, 4, 8}}

InitFont ==
    /\ rec = LoadedRecords([k \in 2..MaxRecs |-> BOUNDARY_MAGIC])
    /\ exth = <<<<>>, <<>>>>
    /\ ph = MobipocketHeader
    /\ hdr = PlainHeaders
    /\ m = (1 :> [MobiInit EXCEPT !.ph = 1, !.rec = 1, !.rh = KF7, !.mh = KF7])
    /\ ret = MOBI_SUCCESS
    /\ ub = FALSE
    /\ \E data \in FontRecords :
        arg = [kind |-> "font", part |-> [data |-> data, size |-> Len(data)]]
    /\ res = NoQuery

DecodeFontCall ==
    /\ res.op = "none" /\ arg.kind = "font"
    /\ \E buf_ok \in BOOLEAN, font_ok \in BOOLEAN :
         \E o \in mobi_decode_font_resource(arg.part, buf_ok, font_ok) :
            /\ res' = [op |-> "mobi_decode_font_resource",
                       val |-> [buf |-> o.buf, font |-> o.font, size |-> o.size,
                                xor_ub |-> o.xor_ub, record |-> arg.part.data,
                                storage |-> IF o.ret # MOBI_SUCCESS THEN "unset"
                                            ELSE IF font_ok THEN "malloc" ELSE "null"]]
            /\ ret' = o.ret
            /\ ub' = o.ub
    /\ UNCHANGED <<m, rec, exth, ph, hdr, arg>>

\* the record copy the deobfuscation should leave: the first
\* min(1040, size - data_offset) bytes of the data region XORed with the key bytes
\* of the record as stored, the rest as stored
ExpectedDeobfuscated(data) ==
    LET h == FontHeader(data)
        from == ToNat(h.data_offset)
        n == IF from >= Len(data) THEN 0 ELSE Min(XOR_LIMIT, Len(data) - from)
        Key(i) == data[ToNat(h.xor_data_off) + (i % ToNat(h.xor_key_len)) + 1]
    IN IF (h.flags[2] \div 2) % 2 = 0 THEN data
       ELSE [k \in 1..Len(data) |->
                IF k - 1 >= from /\ k - 1 < from + n
                THEN BitXor(data[k], Key(k - 1 - from)) ELSE data[k]]

\* the key of the record lies inside the record
KeyInsideRecord(data) ==
    LET h == FontHeader(data)
    IN /\ ToNat(h.xor_key_len) > 0
       /\ ToNat(h.xor_data_off) + ToNat(h.xor_key_len) <= Len(data)

\* the call got as far as the deobfuscation stage
FontDecoded ==
    /\ res.op = "mobi_decode_font_resource"
    /\ arg.part.size >= FONT_HEADER_LEN
    /\ SubSeq(arg.part.data, 1, 4) = FONT_MAGIC
    /\ res.val.buf # <<>>

\* C11: with the XOR flag set the first min(1040, size - data_offset) bytes of the
\* data region are XORed with the cycled key of the record and the later bytes are
\* left as stored, with the flag clear nothing is changed; for every header value
\* (xor_key_len = 0 and offsets past the end included) nothing outside the record
\* copy is read or written.
C11_XorDeobfuscation ==
    FontDecoded =>
        /\ ~res.val.xor_ub
        /\ (((FontHeader(arg.part.data).flags[2] \div 2) % 2 = 0 \/ KeyInsideRecord(arg.part.data))
                => res.val.buf = ExpectedDeobfuscated(arg.part.data))

\* C12: a successful font, audio or video decode hands back a newly allocated
\* buffer, not a pointer into the storage of the input record, and the record
\* payload is byte for byte what it was before the call (calls whose behaviour is
\* defined).
C12_DecodedIsNewBuffer ==
    (/\ res.op \in {"mobi_decode_font_resource", "mobi_decode_audio_resource",
                    "mobi_decode_video_resource"}
     /\ ret = MOBI_SUCCESS /\ ~ub)
        => res.val.storage = "malloc" /\ res.val.record = arg.part.data

(***************************************************************************)
(* Resource type of a record (SpecResource)                                *)
(***************************************************************************)
EOF_MAGIC == <<233, 142, 13, 10>>

\* the magics in the order mobi_determine_resource_type compares them
ResourceMagics == <<
    [magic |-> <<255, 216, 255>>, n |-> 3, type |-> "T_JPG"],
    [magic |-> <<71, 73, 70, 56>>, n |-> 4, type |-> "T_GIF"],
    [magic |-> <<137, 80, 78, 71, 13, 10, 26, 10>>, n |-> 8, type |-> "T_PNG"],
    [magic |-> FONT_MAGIC, n |-> 4, type |-> "T_FONT"],
    [magic |-> BOUNDARY_MAGIC, n |-> 8, type |-> "T_BREAK"],
    [magic |-> EOF_MAGIC, n |-> 4, type |-> "T_BREAK"],
    [magic |-> <<66, 77>>, n |-> 2, type |-> "T_BMP"],
    [magic |-> AUDI_MAGIC, n |-> 4, type |-> "T_AUDIO"],
    [magic |-> VIDE_MAGIC, n |-> 4, type |-> "T_VIDEO"] >>

\* bmp_size = data[2] | data[3] << 8 | data[4] << 16 | data[5] << 24, as a word
BmpSize(b) == <<b[4] * 256 + b[3], b[2] * 256 + b[1]>>

\* the size test of the BMP branch: the outcomes [type, outside, ub]; bytes
\* data[2..5] beyond a short record can hold anything
BmpBranch(data, size) ==
    IF Len(data) >= 6
    THEN {[type |-> IF W(size) = BmpSize(SubSeq(data, 3, 6)) THEN "T_BMP" ELSE "T_UNKNOWN",
           outside |-> FALSE, ub |-> FALSE]}
    ELSE LET want == <<W(size)[2] % 256, W(size)[2] \div 256, W(size)[1] % 256, W(size)[1] \div 256>>
             agree == \A k \in 3..Len(data) : data[k] = want[k - 2]
         IN {[type |-> "T_UNKNOWN", outside |-> agree, ub |-> TRUE]}
            \cup (IF agree THEN {[type |-> "T_BMP", outside |-> TRUE, ub |-> TRUE]} ELSE {})

RECURSIVE TypeChain(_, _, _)
TypeChain(data, size, k) ==
    IF k > Len(ResourceMagics) THEN {[type |-> "T_UNKNOWN", outside |-> FALSE, ub |-> FALSE]}
    ELSE LET e == ResourceMagics[k]
             eqs == MemcmpEqual(data, e.magic, e.n)
             Mark(o) == [o EXCEPT !.outside = o.outside \/ eqs = {TRUE, FALSE},
                                  !.ub = o.ub \/ Len(data) < e.n]
         IN UNION {IF eq
                   THEN {Mark(o) : o \in IF e.type = "T_BMP" THEN BmpBranch(data, size)
                                         ELSE {[type |-> e.type, outside |-> FALSE, ub |-> FALSE]}}
                   ELSE {Mark(o) : o \in TypeChain(data, size, k + 1)} : eq \in eqs}

mobi_determine_resource_type(record) == TypeChain(record.data, record.size, 1)

\* bounds and inputs: every magic followed by up to MaxPad bytes, whole or cut
\* short, and 'BM' records with a size field of 2 .. 6 + MaxPad
MaxPad == 2
TypePads == {[k \in 1..n |-> k] : n \in 0..MaxPad}
TypeRecords ==
    LET magics == {ResourceMagics[k].magic : k \in 1..Len(ResourceMagics)} \cup {<<66, 77, 80>>}
        bmps == {<<66, 77, s, z, 0, 0>> \o pad : s \in 2..(6 + MaxPad), z \in {0, 1}, pad \in TypePads}
        whole == {mg \o pad : mg \in magics, pad \in TypePads} \cup bmps
    IN UNION {{SubSeq(r, 1, n) : n \in 1..Len(r)} : r \in whole}

InitType ==
    /\ rec = LoadedRecords([k \in 2..MaxRecs |-> BOUNDARY_MAGIC])
    /\ exth = <<<<>>, <<>>>>
    /\ ph = MobipocketHeader
    /\ hdr = PlainHeaders
    /\ m = (1 :> [MobiInit EXCEPT !.ph = 1, !.rec = 1, !.rh = KF7, !.mh = KF7])
    /\ ret = MOBI_SUCCESS
    /\ ub = FALSE
    /\ \E data \in TypeRecords :
        arg = [kind |-> "record", part |-> [data |-> data, size |-> Len(data)]]
    /\ res = NoQuery

DetermineResourceTypeCall ==
    /\ res.op = "none" /\ arg.kind = "record"
    /\ \E o \in mobi_determine_resource_type(arg.part) :
        /\ res' = [op |-> "mobi_determine_resource_type",
                   val |-> [type |-> o.type, outside |-> o.outside]]
        /\ ub' = o.ub
    /\ UNCHANGED <<m, rec, exth, ph, hdr, ret, arg>>

\* the resource decoders on AUDI, VIDE and FONT records and the type of a record
InitResource == InitMedia \/ InitFont \/ InitType

NextResource ==
    \/ DecodeAudioCall
    \/ DecodeVideoCall
    \/ DecodeFontCall
    \/ DetermineResourceTypeCall

SpecResource == InitResource /\ [][NextResource]_vars

\* the magic table read on the bytes of the record alone
HasMagic(data, magic) == Len(data) >= Len(magic) /\ SubSeq(data, 1, Len(magic)) = magic
ExpectedResourceType(data) ==
    IF HasMagic(data, <<255, 216, 255>>) THEN "T_JPG"
    ELSE IF HasMagic(data, <<71, 73, 70, 56>>) THEN "T_GIF"
    ELSE IF HasMagic(data, <<137, 80, 78, 71, 13, 10, 26, 10>>) THEN "T_PNG"
    ELSE IF HasMagic(data, <<66, 77>>) /\ Len(data) >= 6
            /\ data[3] + 256 * data[4] = Len(data) /\ data[5] = 0 /\ data[6] = 0 THEN "T_BMP"
    ELSE IF HasMagic(data, FONT_MAGIC) THEN "T_FONT"
    ELSE IF HasMagic(data, AUDI_MAGIC) THEN "T_AUDIO"
    ELSE IF HasMagic(data, VIDE_MAGIC) THEN "T_VIDEO"
    ELSE IF HasMagic(data, BOUNDARY_MAGIC) \/ HasMagic(data, EOF_MAGIC) THEN "T_BREAK"
    ELSE "T_UNKNOWN"

\* C13: the type found for a record is the one the magic table gives for its
\* bytes (JPG, GIF, PNG, BMP with matching size, FONT, AUDIO, VIDEO, BREAK, else
\* UNKNOWN) and no byte at an index >= the record size takes part in it.
C13_TypeFromRecordBytes ==
    res.op = "mobi_determine_resource_type"
        => res.val.type = ExpectedResourceType(arg.part.data) /\ ~res.val.outside

(***************************************************************************)
(* EXTH values, strings and tag descriptors (SpecExth)                     *)
(***************************************************************************)
\* bounds and inputs: payloads of up to MaxExthLen bytes over a palette, decoded
\* with a size of at most the payload length
MaxExthLen == 5
ExthPayloads == SeqsUpTo({0, 1, 128, 255}, MaxExthLen)

InitExthValue ==
    /\ rec = LoadedRecords([k \in 2..MaxRecs |-> BOUNDARY_MAGIC])
    /\ exth = <<<<>>, <<>>>>
    /\ ph = MobipocketHeader
    /\ hdr = PlainHeaders
    /\ m = (1 :> [MobiInit EXCEPT !.ph = 1, !.rec = 1, !.rh = KF7, !.mh = KF7])
    /\ ret = MOBI_SUCCESS
    /\ ub = FALSE
    /\ \E data \in ExthPayloads : \E size \in 0..Len(data) :
        arg = [kind |-> "exthvalue", data |-> data, size |-> size]
    /\ res = NoQuery

DecodeExthvalueCall ==
    /\ res.op = "none" /\ arg.kind = "exthvalue"
    /\ res' = [op |-> "mobi_decode_exthvalue",
               val |-> mobi_decode_exthvalue(arg.data, arg.size)]
    /\ UNCHANGED <<m, rec, exth, ph, hdr, ret, ub, arg>>

\* MOBIEncoding
MOBI_CP1252 == 1252
MOBI_UTF8 == 65001

\* mobi_get_encoding
mobi_get_encoding(h) ==
    IF h # NULL /\ m[h].mh # NULL /\ Mh(h).text_encoding # ABSENT
       /\ Mh(h).text_encoding = W(MOBI_UTF8)
    THEN MOBI_UTF8
    ELSE MOBI_CP1252

\* mobi_is_cp1252
mobi_is_cp1252(h) == mobi_get_encoding(h) = MOBI_CP1252

\* strdup(string): the bytes before the first 0
RECURSIVE Strdup(_)
Strdup(s) == IF s = <<>> \/ s[1] = 0 THEN <<>> ELSE <<s[1]>> \o Strdup(Tail(s))

\* mobi_decode_exthstring(m, data, size): the outcomes [str, nomem, ub]; data is
\* <<>> (NULL) or <<payload>>, str is <<>> (NULL) or <<string>>
mobi_decode_exthstring(h, data, size, strdup_ok) ==
    IF h = NULL \/ data = <<>> THEN {[str |-> <<>>, nomem |-> FALSE, ub |-> FALSE]}
    ELSE LET Dup(string, undefined) ==
                 IF strdup_ok THEN [str |-> <<Strdup(string)>>, nomem |-> FALSE, ub |-> undefined]
                 ELSE [str |-> <<>>, nomem |-> TRUE, ub |-> undefined]
         IN IF mobi_is_cp1252(h)
            THEN {IF o.ret # MOBI_SUCCESS THEN [str |-> <<>>, nomem |-> FALSE, ub |-> o.ub]
                  ELSE Dup(o.out, o.ub) :
                    o \in mobi_cp1252_to_utf8(FALSE, data, 3 * size + 1, size)}
            ELSE {Dup(SubSeq(data[1], 1, size), FALSE)}

\* inputs: payloads of up to MaxLen bytes (NUL, 'A', unassigned 0x81, 0x92), in
\* documents with or without a MOBI header and text_encoding field
ExthStrings == SeqsUpTo({0, 65, 129, 146}, MaxLen)
TextEncodings == {ABSENT, W(0), W(MOBI_CP1252), W(MOBI_UTF8)}

InitExthString ==
    /\ rec = LoadedRecords([k \in 2..MaxRecs |-> BOUNDARY_MAGIC])
    /\ exth = <<<<>>, <<>>>>
    /\ ph = MobipocketHeader
    /\ \E e \in TextEncodings :
        hdr = <<[rh |-> PlainRecord0Header, mh |-> [EmptyMobiHeader EXCEPT !.text_encoding = e]],
                [rh |-> PlainRecord0Header, mh |-> [EmptyMobiHeader EXCEPT !.text_encoding = e]]>>
    /\ \E has_mh \in BOOLEAN :
        m = (1 :> [MobiInit EXCEPT !.ph = 1, !.rec = 1, !.rh = KF7,
                                   !.mh = IF has_mh THEN KF7 ELSE NULL])
    /\ ret = MOBI_SUCCESS
    /\ ub = FALSE
    /\ \E s \in ExthStrings, h \in {NULL, 1}, null \in BOOLEAN :
        arg = [kind |-> "exthstring", h |-> h, s |-> s,
               data |-> IF null THEN <<>> ELSE <<s>>, size |-> Len(s)]
    /\ res = NoQuery

DecodeExthstringCall ==
    /\ res.op = "none" /\ arg.kind = "exthstring"
    /\ \E strdup_ok \in BOOLEAN :
         \E o \in mobi_decode_exthstring(arg.h, arg.data, arg.size, strdup_ok) :
            /\ res' = [op |-> "mobi_decode_exthstring",
                       val |-> [str |-> o.str, nomem |-> o.nomem]]
            /\ ub' = o.ub
    /\ UNCHANGED <<m, rec, exth, ph, hdr, ret, arg>>

\* MOBIExthType
EXTH_NUMERIC == 0
EXTH_STRING == 1
EXTH_BINARY == 2

\* mobi_exth_tags: the rows [tag, type, name] up to the closing {0, 0, NULL};
\* name is <<>> for NULL
mobi_exth_tags == <<
    [tag |-> 115, type |-> EXTH_NUMERIC, name |-> <<"Sample">>],
    [tag |-> 116, type |-> EXTH_NUMERIC, name |-> <<"Start offset">>],
    [tag |-> 121, type |-> EXTH_NUMERIC, name |-> <<"K8 boundary offset">>],
    [tag |-> 125, type |-> EXTH_NUMERIC, name |-> <<"K8 count of resources, fonts, images">>],
    [tag |-> 131, type |-> EXTH_NUMERIC, name |-> <<"RESC offset">>],
    [tag |-> 201, type |-> EXTH_NUMERIC, name |-> <<"Cover offset">>],
    [tag |-> 202, type |-> EXTH_NUMERIC, name |-> <<"Thumbnail offset">>],
    [tag |-> 203, type |-> EXTH_NUMERIC, name |-> <<"Has fake cover">>],
    [tag |-> 204, type |-> EXTH_NUMERIC, name |-> <<"Creator software">>],
    [tag |-> 205, type |-> EXTH_NUMERIC, name |-> <<"Creator major version">>],
    [tag |-> 206, type |-> EXTH_NUMERIC, name |-> <<"Creator minor version">>],
    [tag |-> 207, type |-> EXTH_NUMERIC, name |-> <<"Creator build number">>],
    [tag |-> 401, type |-> EXTH_NUMERIC, name |-> <<"Clipping limit">>],
    [tag |-> 402, type |-> EXTH_NUMERIC, name |-> <<"Publisher limit">>],
    [tag |-> 404, type |-> EXTH_NUMERIC, name |-> <<"Text to Speech disabled">>],
    [tag |-> 406, type |-> EXTH_NUMERIC, name |-> <<"Rental indicator">>],
    [tag |-> 1, type |-> EXTH_STRING, name |-> <<"Drm server id">>],
    [tag |-> 2, type |-> EXTH_STRING, name |-> <<"Drm commerce id">>],
    [tag |-> 3, type |-> EXTH_STRING, name |-> <<"Drm Ebookbase book id">>],
    [tag |-> 99, type |-> EXTH_STRING, name |-> <<"Title">>],
    [tag |-> 100, type |-> EXTH_STRING, name |-> <<"Creator">>],
    [tag |-> 101, type |-> EXTH_STRING, name |-> <<"Publisher">>],
    [tag |-> 102, type |-> EXTH_STRING, name |-> <<"Imprint">>],
    [tag |-> 103, type |-> EXTH_STRING, name |-> <<"Description">>],
    [tag |-> 104, type |-> EXTH_STRING, name |-> <<"ISBN">>],
    [tag |-> 105, type |-> EXTH_STRING, name |-> <<"Subject">>],
    [tag |-> 106, type |-> EXTH_STRING, name |-> <<"Published">>],
    [tag |-> 107, type |-> EXTH_STRING, name |-> <<"Review">>],
    [tag |-> 108, type |-> EXTH_STRING, name |-> <<"Contributor">>],
    [tag |-> 109, type |-> EXTH_STRING, name |-> <<"Rights">>],
    [tag |-> 110, type |-> EXTH_STRING, name |-> <<"Subject code">>],
    [tag |-> 111, type |-> EXTH_STRING, name |-> <<"Type">>],
    [tag |-> 112, type |-> EXTH_STRING, name |-> <<"Source">>],
    [tag |-> 113, type |-> EXTH_STRING, name |-> <<"ASIN">>],
    [tag |-> 114, type |-> EXTH_STRING, name |-> <<"Version number">>],
    [tag |-> 117, type |-> EXTH_STRING, name |-> <<"Adult">>],
    [tag |-> 118, type |-> EXTH_STRING, name |-> <<"Price">>],
    [tag |-> 119, type |-> EXTH_STRING, name |-> <<"Currency">>],
    [tag |-> 122, type |-> EXTH_STRING, name |-> <<"Fixed layout">>],
    [tag |-> 123, type |-> EXTH_STRING, name |-> <<"Book type">>],
    [tag |-> 124, type |-> EXTH_STRING, name |-> <<"Orientation lock">>],
    [tag |-> 126, type |-> EXTH_STRING, name |-> <<"Original resolution">>],
    [tag |-> 127, type |-> EXTH_STRING, name |-> <<"Zero gutter">>],
    [tag |-> 128, type |-> EXTH_STRING, name |-> <<"Zero margin">>],
    [tag |-> 129, type |-> EXTH_STRING, name |-> <<"K8 masthead/cover image">>],
    [tag |-> 132, type |-> EXTH_STRING, name |-> <<"Region magnification">>],
    [tag |-> 200, type |-> EXTH_STRING, name |-> <<"Dictionary short name">>],
    [tag |-> 208, type |-> EXTH_STRING, name |-> <<"Watermark">>],
    [tag |-> 501, type |-> EXTH_STRING, name |-> <<"Document type">>],
    [tag |-> 502, type |-> EXTH_STRING, name |-> <<"Last update time">>],
    [tag |-> 503, type |-> EXTH_STRING, name |-> <<"Updated title">>],
    [tag |-> 504, type |-> EXTH_STRING, name |-> <<"ASIN (504)">>],
    [tag |-> 508, type |-> EXTH_STRING, name |-> <<"Title file as">>],
    [tag |-> 517, type |-> EXTH_STRING, name |-> <<"Creator file as">>],
    [tag |-> 522, type |-> EXTH_STRING, name |-> <<"Publisher file as">>],
    [tag |-> 524, type |-> EXTH_STRING, name |-> <<"Language">>],
    [tag |-> 525, type |-> EXTH_STRING, name |-> <<"Primary writing mode">>],
    [tag |-> 527, type |-> EXTH_STRING, name |-> <<"Page progression direction">>],
    [tag |-> 528, type |-> EXTH_STRING, name |-> <<"Override Kindle fonts">>],
    [tag |-> 529, type |-> EXTH_STRING, name |-> <<"Original source description">>],
    [tag |-> 534, type |-> EXTH_STRING, name |-> <<"Unknown (534)">>],
    [tag |-> 535, type |-> EXTH_STRING, name |-> <<"Kindlegen BuildRev number">>],
    [tag |-> 209, type |-> EXTH_BINARY, name |-> <<"Tamper proof keys">>],
    [tag |-> 300, type |-> EXTH_BINARY, name |-> <<"Font signature">>],
    [tag |-> 403, type |-> EXTH_BINARY, name |-> <<"Unknown (403)">>],
    [tag |-> 405, type |-> EXTH_BINARY, name |-> <<"Unknown (405)">>],
    [tag |-> 407, type |-> EXTH_BINARY, name |-> <<"Unknown (407)">>],
    [tag |-> 450, type |-> EXTH_BINARY, name |-> <<"Unknown (450)">>],
    [tag |-> 451, type |-> EXTH_BINARY, name |-> <<"Unknown (451)">>],
    [tag |-> 452, type |-> EXTH_BINARY, name |-> <<"Unknown (452)">>],
    [tag |-> 453, type |-> EXTH_BINARY, name |-> <<"Unknown (453)">>],
    [tag |-> 0, type |-> 0, name |-> <<>>] >>

\* mobi_get_exthtagmeta_by_tag: the first row with the tag among the rows before
\* the closing one, else the zeroed structure
mobi_get_exthtagmeta_by_tag(tag) ==
    LET end == CHOOSE i \in 1..Len(mobi_exth_tags) :
                   /\ mobi_exth_tags[i].tag = 0
                   /\ \A j \in 1..(i - 1) : mobi_exth_tags[j].tag > 0
        hits == {i \in 1..(end - 1) : mobi_exth_tags[i].tag = tag}
    IN IF hits = {} THEN [tag |-> 0, type |-> 0, name |-> <<>>]
       ELSE mobi_exth_tags[CHOOSE i \in hits : \A j \in hits : i <= j]

\* bounds and inputs: the tag ids 0 .. MaxTag
MaxTag == 540

InitExthTag ==
    /\ rec = LoadedRecords([k \in 2..MaxRecs |-> BOUNDARY_MAGIC])
    /\ exth = <<<<>>, <<>>>>
    /\ ph = MobipocketHeader
    /\ hdr = PlainHeaders
    /\ m = (1 :> [MobiInit EXCEPT !.ph = 1, !.rec = 1, !.rh = KF7, !.mh = KF7])
    /\ ret = MOBI_SUCCESS
    /\ ub = FALSE
    /\ \E tag \in 0..MaxTag : arg = [kind |-> "exthtag", tag |-> tag]
    /\ res = NoQuery

GetExthtagmetaByTagCall ==
    /\ res.op = "none" /\ arg.kind = "exthtag"
    /\ res' = [op |-> "mobi_get_exthtagmeta_by_tag",
               val |-> mobi_get_exthtagmeta_by_tag(arg.tag)]
    /\ UNCHANGED <<m, rec, exth, ph, hdr, ret, ub, arg>>

\* EXTH payloads decoded as numbers and as strings, and tag descriptors
InitExth == InitExthValue \/ InitExthString \/ InitExthTag

NextExth ==
    \/ DecodeExthvalueCall
    \/ DecodeExthstringCall
    \/ GetExthtagmetaByTagCall

SpecExth == InitExth /\ [][NextExth]_vars

\* the big-endian number written with the bytes b (at most four), as a word
BigEndian(b) ==
    LET p == [k \in 1..(4 - Len(b)) |-> 0] \o b
    IN <<p[1] * 256 + p[2], p[3] * 256 + p[4]>>

\* C14: mobi_decode_exthvalue(data, size) is the big-endian unsigned integer of
\* the first min(size, 4) payload bytes: 0 for size 0, the whole payload for size
\* 1..4, and for size > 4 a 32-bit value made of the first four bytes only.
C14_ExthValueBigEndian ==
    res.op = "mobi_decode_exthvalue"
        => /\ res.val = BigEndian(SubSeq(arg.data, 1, Min(arg.size, 4)))
           /\ res.val[1] < HALF /\ res.val[2] < HALF

C14_Witness ==
    /\ res.op = "mobi_decode_exthvalue"
    /\ arg.size > 4
    /\ arg.data = <<128, 1, 0, 255, 255>>
    /\ res.val = <<128 * 256 + 1, 255>>

\* the text_encoding of the document of the call, <<>> when it has none
DocumentEncoding ==
    IF arg.h = NULL \/ m[arg.h].mh = NULL \/ Mh(arg.h).text_encoding = ABSENT THEN <<>>
    ELSE <<Mh(arg.h).text_encoding>>

\* a call on a document and a payload, whose behaviour is defined and whose copy
\* could be allocated
IsExthstringCall ==
    /\ res.op = "mobi_decode_exthstring"
    /\ arg.h # NULL /\ arg.data # <<>>
    /\ ~ub /\ ~res.val.nomem

\* C15: with text_encoding 1252 the string returned is the payload converted from
\* CP1252 to UTF-8 (0x92 gives E2 80 99), with text_encoding 65001 it is the
\* payload itself, byte for byte and of the same length.
C15_ExthStringByEncoding ==
    IsExthstringCall =>
        /\ (/\ DocumentEncoding = <<W(MOBI_CP1252)>>
            /\ \A k \in 1..Len(arg.s) : arg.s[k] \notin UnassignedCp1252)
                => res.val.str = <<ExpectedOutput(arg.s)>>
        /\ DocumentEncoding = <<W(MOBI_UTF8)>> => res.val.str = <<arg.s>>

\* the rows of the table that describe a tag
TableRows(tag) ==
    {i \in 1..Len(mobi_exth_tags) : mobi_exth_tags[i].tag = tag /\ mobi_exth_tags[i].name # <<>>}

\* C16: the descriptor of a tag id that is not in mobi_exth_tags has the type
\* EXTH_BINARY, the descriptor of a tag id in the table has the type listed there.
C16_AbsentTagIsBinary ==
    res.op = "mobi_get_exthtagmeta_by_tag" =>
        IF TableRows(arg.tag) = {} THEN res.val.type = EXTH_BINARY
        ELSE \E i \in TableRows(arg.tag) : res.val.type = mobi_exth_tags[i].type

(***************************************************************************)
(* The KF8 boundary of a loaded document (SpecBoundary)                    *)
(***************************************************************************)
\* inputs: records "BOUNDARY", "BOUNDARX", "Hi" and the 5-byte "BOUND"; EXTH lists
\* without tag 121, with one (value 0 .. MaxRecs + 1, four bytes or one), with two
BoundaryPayloads == Payloads \cup {SubSeq(BOUNDARY_MAGIC, 1, 5)}
BoundaryExthLists ==
    {<<>>, <<[tag |-> EXTH_AUTHOR, size |-> 2, data |-> <<72, 105>>]>>}
    \cup {<<ExthNumeric(EXTH_KF8BOUNDARY, v)>> : v \in 0..(MaxRecs + 1)}
    \cup {<<[tag |-> EXTH_KF8BOUNDARY, size |-> 1, data |-> <<v>>]>> : v \in 1..MaxRecs}
    \cup {<<ExthNumeric(EXTH_KF8BOUNDARY, v), ExthNumeric(EXTH_KF8BOUNDARY, MaxRecs)>> :
            v \in 1..(MaxRecs - 1)}

InitBoundary ==
    /\ \E payload \in [2..MaxRecs -> BoundaryPayloads] : rec = LoadedRecords(payload)
    /\ \E k7 \in BoundaryExthLists : exth = <<k7, <<>>>>
    /\ m = (1 :> WithRecord0([MobiInit EXCEPT !.ph = 1, !.rec = 1], KF7))
    /\ ph = MobipocketHeader
    /\ hdr = PlainHeaders
    /\ ret = MOBI_SUCCESS
    /\ ub = FALSE
    /\ \E h \in {NULL, 1} : arg = [kind |-> "boundary", h |-> h]
    /\ res = NoQuery

\* the call is undefined when its answer hangs on bytes behind a short record
Kf8boundarySeqnumberCall ==
    /\ res.op = "none" /\ arg.kind = "boundary"
    /\ \E v \in mobi_get_kf8boundary_seqnumber(arg.h) :
        res' = [op |-> "mobi_get_kf8boundary_seqnumber", val |-> v]
    /\ ub' = (mobi_get_kf8boundary_seqnumber(arg.h) # {MOBI_NOTSET}
              /\ MOBI_NOTSET \in mobi_get_kf8boundary_seqnumber(arg.h))
    /\ UNCHANGED <<m, rec, exth, ph, hdr, ret, arg>>

NextBoundary == Kf8boundarySeqnumberCall

SpecBoundary == InitBoundary /\ [][NextBoundary]_vars

\* the numeric value of the first EXTH tag 121 entry of document h, <<>> without one
Tag121Value(h) ==
    IF h = NULL \/ m[h].eh = NULL THEN <<>>
    ELSE LET list == exth[m[h].eh]
             hits == {k \in 1..Len(list) : list[k].tag = EXTH_KF8BOUNDARY}
             first == list[CHOOSE k \in hits : \A j \in hits : k <= j]
         IN IF hits = {} THEN <<>>
            ELSE <<BigEndian(SubSeq(first.data, 1, Min(first.size, 4)))>>

\* the records of document h in list order
LiveRecords(h) == IF h = NULL THEN <<>> ELSE RecordList(m[h])

\* v - 1 when v is the value of tag 121, record v - 1 exists and its payload begins
\* with "BOUNDARY"; MOBI_NOTSET otherwise
ExpectedBoundary(h) ==
    IF Tag121Value(h) = <<>> THEN MOBI_NOTSET
    ELSE LET v == Tag121Value(h)[1] IN
         IF v[1] # 0 \/ v[2] = 0 \/ v[2] > Len(LiveRecords(h)) THEN MOBI_NOTSET
         ELSE IF HasMagic(rec[LiveRecords(h)[v[2]]].data, BOUNDARY_MAGIC) THEN W(v[2] - 1)
         ELSE MOBI_NOTSET

\* C17: mobi_get_kf8boundary_seqnumber returns v - 1, v the value of the first
\* EXTH tag 121 entry, exactly when a record with sequence number v - 1 exists and
\* its payload begins with "BOUNDARY"; without tag 121, for v = 0, for v - 1 beyond
\* the record list and for any other payload it returns MOBI_NOTSET.
C17_BoundaryIffMagic ==
    res.op = "mobi_get_kf8boundary_seqnumber" => res.val = ExpectedBoundary(arg.h)

(***************************************************************************)
(* The section offset of a hybrid and the text read from it (SpecKf8)      *)
(***************************************************************************)
\* the record list of a file with MaxRecs + 1 records: Record 0, the payload p at
\* sequence number 1, a second Record 0, the text t in every later record
Kf8Records(p, t) ==
    [k \in 1..(MaxRecs + 1) |->
        LET data == IF k \in {1, 3} THEN Record0Payload ELSE IF k = 2 THEN p ELSE t
        IN [data |-> data, size |-> Len(data), uid |-> 2 * (k - 1),
            next |-> IF k = MaxRecs + 1 THEN NULL ELSE k + 1, freed |-> FALSE]]

\* a file as loaded: a hybrid when tag 121 is 2 and record 1 is "BOUNDARY"; one or
\* two uncompressed text records
InitKf8 ==
    /\ \E p \in {BOUNDARY_MAGIC, <<72, 105>>}, t \in {<<89, 111>>, <<79, 75, 33>>} :
        rec = Kf8Records(p, t)
    /\ \E k7 \in {<<>>, <<ExthNumeric(EXTH_KF8BOUNDARY, 2)>>} : exth = <<k7, <<>>>>
    /\ m \in LoadFile
    /\ ph = MobipocketHeader
    /\ \E n \in 1..2 :
        hdr = [k \in {KF7, KF8} |->
                [PlainHeaders[k] EXCEPT !.rh = [PlainRecord0Header EXCEPT !.text_record_count = n,
                                                                          !.text_length = W(0)]]]
    /\ ret = MOBI_SUCCESS
    /\ ub = FALSE
    /\ arg = <<>>
    /\ res = NoQuery

GetKf8offsetCall ==
    /\ ~ub
    /\ \E h \in Handles :
        res' = [op |-> "mobi_get_kf8offset", val |-> [h |-> h, offset |-> mobi_get_kf8offset(h)]]
    /\ UNCHANGED <<m, rec, exth, ph, hdr, ret, ub, arg>>

DumpRawmlOfHalfCall ==
    /\ ~ub
    /\ \E h \in Handles : \E o \in mobi_dump_rawml(h, FALSE) :
        /\ res' = [op |-> "mobi_dump_rawml", val |-> [h |-> h, text |-> o.text]]
        /\ ret' = o.ret
        /\ ub' = o.ub
    /\ UNCHANGED <<m, rec, exth, ph, hdr, arg>>

NextKf8 ==
    \/ ParseKf7Call
    \/ ParseKf8Call
    \/ GetKf8offsetCall
    \/ DumpRawmlOfHalfCall

SpecKf8 == InitKf8 /\ [][NextKf8]_vars

\* kf8_boundary_offset + 1 for a hybrid read as KF8, 0 otherwise
ExpectedKf8offset(h) ==
    IF mobi_is_hybrid(h) /\ m[h].use_kf8 THEN U32Inc(m[h].kf8_boundary_offset) ELSE W(0)

\* the payloads of the records of h numbered from + 1 .. from + count, as far as
\* the list goes, one after the other
RECURSIVE TextFrom(_, _, _)
TextFrom(h, from, count) ==
    IF count = 0 \/ from + 2 > Len(LiveRecords(h)) THEN <<>>
    ELSE rec[LiveRecords(h)[from + 2]].data \o TextFrom(h, from + 1, count - 1)

\* C18: mobi_get_kf8offset is kf8_boundary_offset + 1 exactly when the document is
\* a hybrid and use_kf8 is set, and 0 otherwise; after mobi_parse_kf7 it is 0, after
\* mobi_parse_kf8 on a hybrid it is the boundary plus one; and the text is read from
\* the records that start at sequence number offset + 1.
C18_Kf8offsetSelectsHalf ==
    [][/\ \A h \in Handles :
            /\ ((res'.op = res.op /\ ParseKf7(h)) => (mobi_get_kf8offset(h))' = W(0))
            /\ ((res'.op = res.op /\ ParseKf8(h) /\ mobi_is_hybrid(h))
                    => (mobi_get_kf8offset(h))' = U32Inc(m[h].kf8_boundary_offset))
       /\ ((res'.op = "mobi_get_kf8offset" /\ GetKf8offsetCall)
                => res'.val.offset = ExpectedKf8offset(res'.val.h))
       /\ ((res'.op = "mobi_dump_rawml" /\ DumpRawmlOfHalfCall /\ ret' = MOBI_SUCCESS /\ ~ub')
                => res'.val.text = TextFrom(res'.val.h, ExpectedKf8offset(res'.val.h)[2],
                                            Rh(res'.val.h).text_record_count))]_vars

\* the KF7 text of a hybrid was dumped after mobi_parse_kf7, and mobi_parse_kf8 has
\* since put the offset back behind the boundary
C18_Witness ==
    /\ IsHybridDocument
    /\ res.op = "mobi_dump_rawml" /\ res.val.h = 1 /\ res.val.text = BOUNDARY_MAGIC
    /\ m[1].use_kf8
    /\ mobi_get_kf8offset(1) = W(2)

(***************************************************************************)
(* Text records with trailers and unknown compression codes (SpecRawml)    *)
(***************************************************************************)
\* inputs: text records that are empty, whose last byte declares a trailer of the
\* whole record ("Hi": 2 of 2), of more than the record (<<3>>: 4 of 1), or of a
\* part of it (<<65, 66, 0>>: 1 of 3), and a record of one byte more than the
\* per-record buffer (the text "AA...A"; 2 of 4097)
LongPayload == [k \in 1..(RECORD0_TEXT_SIZE_MAX + 1) |-> 65]

TrailerPayloads == {<<>>, <<72, 105>>, <<3>>, <<65, 66, 0>>, LongPayload}

\* Record 0 prefixes of unencrypted documents: the three known compression codes
\* and two unknown ones, one or two text records
RawmlRecord0Headers ==
    {[PlainRecord0Header EXCEPT !.compression_type = c, !.text_record_count = n] :
        c \in {0, 7, RECORD0_NO_COMPRESSION, RECORD0_PALMDOC_COMPRESSION,
               RECORD0_HUFF_COMPRESSION},
        n \in 1..2}

RawmlCalls ==
    {[kind |-> "mobi_get_rawml", len |-> n, null |-> FALSE] : n \in {0, 2, MaxBuf}}
    \cup {[kind |-> "mobi_dump_rawml", len |-> 0, null |-> b] : b \in BOOLEAN}

\* a loaded document with or without a MOBI header and its extra_flags; with a
\* boundary at the last record the first text record is behind the end of the list
InitRawml ==
    /\ \E payload \in [2..MaxRecs -> TrailerPayloads] : rec = LoadedRecords(payload)
    /\ exth = <<<<>>, <<>>>>
    /\ ph = MobipocketHeader
    /\ \E rh \in RawmlRecord0Headers, f \in {ABSENT, W(0), W(1)} :
        hdr = <<[rh |-> rh, mh |-> [EmptyMobiHeader EXCEPT !.extra_flags = f]],
                [rh |-> rh, mh |-> [EmptyMobiHeader EXCEPT !.extra_flags = f]]>>
    /\ \E has_mh \in BOOLEAN, b \in {MOBI_NOTSET, W(MaxRecs - 1)} :
        m = (1 :> [MobiInit EXCEPT !.ph = 1, !.rec = 1, !.rh = KF7,
                                   !.mh = IF has_mh THEN KF7 ELSE NULL,
                                   !.kf8_boundary_offset = b])
    /\ ret = MOBI_SUCCESS
    /\ ub = FALSE
    /\ arg \in RawmlCalls
    /\ res = NoQuery

NextRawml ==
    \/ GetRawmlCall
    \/ DumpRawmlCall

SpecRawml == InitRawml /\ [][NextRawml]_vars

\* the text records of document 1, in order: text_record_count records from
\* sequence number offset + 1, as far as the list goes
TextRecords ==
    LET from == ExpectedKf8offset(1)[2] + 2
        to == Min(from + Rh(1).text_record_count - 1, Len(LiveRecords(1)))
    IN SubSeq(LiveRecords(1), from, to)

\* the trailer flags in force
TrailerFlags ==
    IF m[1].mh # NULL /\ Mh(1).extra_flags # ABSENT THEN Mh(1).extra_flags ELSE W(0)

\* the trailer of record r cannot be determined (empty record) or is not smaller
\* than the record
BadTrailer(r) ==
    /\ TrailerFlags[2] % 2 = 1
    /\ (rec[r].size = 0 \/ (rec[r].data[rec[r].size] % 4) + 1 >= rec[r].size)

\* the positions of the text records with a bad trailer
BadTrailers == {k \in 1..Len(TextRecords) : BadTrailer(TextRecords[k])}

\* the bytes of the text records before position k
RECURSIVE BytesBefore(_)
BytesBefore(k) == IF k <= 1 THEN 0 ELSE BytesBefore(k - 1) + rec[TextRecords[k - 1]].size

\* a text call whose behaviour is defined has returned
IsRawmlCall == res.op \in {"mobi_get_rawml", "mobi_dump_rawml"} /\ ~ub

\* C19: when a text record has a trailer size that cannot be determined or is not
\* smaller than the record, mobi_get_rawml and mobi_dump_rawml do not succeed, and
\* when the loop gets to that record they return MOBI_DATA_CORRUPT with nothing of
\* that record decompressed.
C19_TrailerUnderflowIsCorrupt ==
    (IsRawmlCall /\ BadTrailers # {}) =>
        LET k == CHOOSE i \in BadTrailers : \A j \in BadTrailers : i <= j IN
        /\ ret \in {MOBI_DATA_CORRUPT, MOBI_PARAM_ERR, MOBI_MALLOC_FAILED, MOBI_FILE_NOT_FOUND}
        /\ Len(res.val.text) <= BytesBefore(k)
        /\ (res.op = "mobi_dump_rawml" /\ ~arg.null
                /\ Rh(1).compression_type # RECORD0_HUFF_COMPRESSION)
               => ret = MOBI_DATA_CORRUPT

\* the second text record has a trailer as long as itself and the first one was
\* written out before the call returned MOBI_DATA_CORRUPT
C19_Witness ==
    /\ res.op = "mobi_dump_rawml"
    /\ BadTrailers = {2}
    /\ ret = MOBI_DATA_CORRUPT
    /\ res.val.text = <<65, 66, 0>>

\* the compression code of Record 0 is none of 1, 2, 17480
UnknownCompression ==
    Rh(1).compression_type \notin {RECORD0_NO_COMPRESSION, RECORD0_PALMDOC_COMPRESSION,
                                   RECORD0_HUFF_COMPRESSION}

\* the request got past the checks of its arguments: a file to write to, or a
\* buffer of at least text_length bytes
IsTextRequest ==
    /\ IsRawmlCall
    /\ res.op = "mobi_dump_rawml" => ~arg.null
    /\ res.op = "mobi_get_rawml" => ~U32Less(W(arg.len), Rh(1).text_length)

C21_DecompressorErrorReturned ==
    (IsRawmlCall /\ res.val.failed # "none") => ret = res.val.failed

\* C22: in mobi_get_rawml and mobi_dump_rawml the bytes placed in the per-record
\* buffer never exceed RECORD0_TEXT_SIZE_MAX (4096), for every text record and
\* compression code, whatever the record's stored size.
C22_RecordBufferBounded ==
    res.op \in {"mobi_get_rawml", "mobi_dump_rawml"}
        => res.val.placed <= RECORD0_TEXT_SIZE_MAX

\* the text records up to position k, each without its trailer
RECURSIVE StrippedText(_)
StrippedText(k) ==
    IF k = 0 THEN <<>>
    ELSE LET r == rec[TextRecords[k]]
         IN StrippedText(k - 1)
                \o SubSeq(r.data, 1, r.size - mobi_get_record_extrasize(r, TrailerFlags)[2])

\* C23: with extra_flags non-zero and a document stored without compression
\* (code 1), the text mobi_dump_rawml writes is, record by record, exactly the
\* first (size - trailer size) bytes of each text record: no trailer byte is output.
C23_TrailerNotInText ==
    (/\ IsRawmlCall
     /\ res.op = "mobi_dump_rawml"
     /\ ret = MOBI_SUCCESS
     /\ Rh(1).compression_type = RECORD0_NO_COMPRESSION
     /\ TrailerFlags # W(0)
     /\ BadTrailers = {})
        => res.val.text = StrippedText(Len(TextRecords))

\* everything of the document but the structures m: records, EXTH lists, headers
\* and the outcome of undefined behaviour
DocumentRest == <<rec, exth, ph, hdr, ub>>

\* C24: mobi_parse_kf8 on a document leaves use_kf8 = TRUE and changes nothing
\* else, so a second call changes nothing at all; mobi_parse_kf7 likewise with
\* use_kf8 = FALSE; on a null document both return MOBI_INIT_FAILED and change
\* nothing.
C24_ParseIsIdempotent ==
    [][/\ \A h \in Handles :
            /\ (res' = res /\ ParseKf8(h)) =>
                    /\ ret' = MOBI_SUCCESS
                    /\ m' = [m EXCEPT ![h].use_kf8 = TRUE]
                    /\ (m[h].use_kf8 => m' = m)
                    /\ UNCHANGED DocumentRest
            /\ (res' = res /\ ParseKf7(h)) =>
                    /\ ret' = MOBI_SUCCESS
                    /\ m' = [m EXCEPT ![h].use_kf8 = FALSE]
                    /\ (~m[h].use_kf8 => m' = m)
                    /\ UNCHANGED DocumentRest
       /\ (res' = res /\ (ParseKf8(NULL) \/ ParseKf7(NULL))) =>
                    /\ ret' = MOBI_INIT_FAILED
                    /\ UNCHANGED <<m, DocumentRest>>]_vars

\* mobi_parse_kf7 has been called on the KF7 half of a hybrid whose other half
\* uses KF8, and a call on a null document has failed since
C24_Witness ==
    /\ IsHybridDocument
    /\ m[1].use_kf8
    /\ ~m[2].use_kf8
    /\ ret = MOBI_INIT_FAILED

\* the index field each exists predicate is about
ExistsField ==
    [mobi_exists_skel_indx |-> "skeleton_index", mobi_exists_frag_indx |-> "fragment_index",
     mobi_exists_guide_indx |-> "guide_index", mobi_exists_ncx |-> "ncx_index",
     mobi_exists_orth |-> "orth_index", mobi_exists_fdst |-> "fdst_index"]

\* C25: each of mobi_exists_skel_indx, mobi_exists_frag_indx,
\* mobi_exists_guide_indx, mobi_exists_ncx, mobi_exists_orth and mobi_exists_fdst
\* returns true exactly when the MOBI header is loaded and its index field is
\* present and not 0xFFFFFFFF, whatever the file version.
C25_ExistsIffIndexSet ==
    res.op \in DOMAIN ExistsField =>
        (res.val <=> (/\ m[1].mh # NULL
                      /\ Mh(1)[ExistsField[res.op]] # ABSENT
                      /\ Mh(1)[ExistsField[res.op]] # MOBI_NOTSET))

\* C26: mobi_get_rawml with a caller buffer of *len bytes writes only at indices
\* below *len, the text and its terminating NUL included, also when the records
\* decompress to more than text_length bytes.
C26_RawmlWritesInsideBuffer ==
    res.op = "mobi_get_rawml" => res.val.wrote <= arg.len

\* C27: mobi_get_fullname writes only inside fullname[0..len-1], the terminating
\* NUL included, and reads no byte of Record 0 at or beyond the record's size, for
\* every full_name_offset and full_name_length of the header.
C27_FullnameInsideBounds ==
    (res.op = "mobi_get_fullname" /\ ret = MOBI_SUCCESS) =>
        /\ res.val.wrote <= arg.len
        /\ res.val.read <= rec[mobi_get_record_by_seqnumber(1, mobi_get_kf8offset(1))].size

\* C28: mobi_cp1252_to_utf8 reads only input indices below insize and writes only
\* output indices below the *outsize passed in, the terminating NUL included, for
\* every input and every *outsize; with *outsize = 3 * insize + 1 the *outsize
\* returned is at most 3 * insize.
C28_Cp1252InsideBounds ==
    res.op = "mobi_cp1252_to_utf8" =>
        /\ res.val.read <= arg.insize
        /\ res.val.wrote <= arg.outsize
        /\ (arg.outsize = 3 * arg.insize + 1 /\ ret = MOBI_SUCCESS /\ ~ub)
                => res.val.outsize <= 3 * arg.insize

\* the language rows whose first entry agrees with the lower-cased tag s on its
\* first two letters, and the regions of row l whose entry is the whole tag
LanguageRows(s) ==
    {l \in 0..(MOBI_LANG_MAX - 1) :
        /\ mobi_locale(l, 0) # <<>>
        /\ SubSeq(mobi_locale(l, 0)[1], 1, 2) = SubSeq(s, 1, 2)}
RegionsOf(s, l) ==
    {r \in 0..(MOBI_REGION_MAX - 1) : mobi_locale(l, r) = <<s>>}

\* C29: mobi_get_locale_number on a tag of two or more letters whose first two
\* letters, case-insensitively, match a language row but whose full tag is not in
\* that row returns the bare language code of the first such row, and compares
\* the tag only against entries of the table that exist; on a null or shorter
\* tag, or one that matches no language, it returns 0.
C29_BareLanguageFallback ==
    (res.op = "mobi_get_locale_number" /\ arg.kind = "tag") =>
        IF arg.s = <<>> \/ Len(arg.s[1]) < 2 THEN ~ub /\ res.val = 0
        ELSE LET s == [i \in 1..Len(arg.s[1]) |-> tolower(arg.s[1][i])]
                 rows == LanguageRows(s)
                 l == CHOOSE x \in rows : \A y \in rows : x <= y
             IN IF rows = {} THEN ~ub /\ res.val = 0
                ELSE RegionsOf(s, l) = {} => (~ub /\ res.val = l)

\* C30: in a hybrid document, loaded with the KF8 headers active and use_kf8 set,
\* after any sequence of mobi_swap_mobidata, mobi_parse_kf7 and mobi_parse_kf8
\* calls mobi_get_kf8offset is kf8_boundary_offset + 1 exactly when the active
\* headers (m->rh, m->mh) are those of the KF8 half, and 0 exactly when they are
\* those of the KF7 half.
C30_OffsetFollowsActiveHeaders ==
    (IsHybridDocument /\ ~ub) =>
        /\ (mobi_get_kf8offset(1) = U32Inc(m[1].kf8_boundary_offset))
                <=> (m[1].rh = KF8 /\ m[1].mh = KF8)
        /\ (mobi_get_kf8offset(1) = W(0)) <=> (m[1].rh = KF7 /\ m[1].mh = KF7)

====
